---- MODULE Spec2Model ----
(***************************************************************************)
(* State-machine model of the audio-reactive visualizer:                   *)
(*   - HypercubeCore (render-state engine) with its ShaderManager          *)
(*     (shader composition engine), specification SpecCore;                *)
(*   - SoundModule (audio synthesis engine), specification SpecSound.      *)
(* Handlers are pure operators over a record of the object's fields; each  *)
(* action applies one public operation, timer or frame callback as a whole *)
(* and commits the resulting record to the variables.                      *)
(***************************************************************************)
EXTENDS Integers, Sequences, FiniteSets, TLC

\* ------------------------------------------------------------------------
\* Bounds of the model (not program constants)
\* ------------------------------------------------------------------------
MaxVal == 1
MaxUpdates == 2
MaxRaf == 3
MaxSize == 2
MaxCount == 2
MaxVoices == 2
MaxPending == 1
MaxTimers == 2
MaxSteps == 4
MaxBuilds == 2

\* ------------------------------------------------------------------------
\* HypercubeCore: names
\* ------------------------------------------------------------------------
NoFrame == 0
NoProgram == "none"
shaderProgramName == "maleficarumViz"
ProgramNames == {shaderProgramName}
GeometryTypes == {"hypercube", "hypersphere"}
ProjectionMethods == {"perspective", "orthographic", "stereographic"}
\* the projection names the model passes to updateParameters
ProjectionInputs == {"perspective", "stereographic"}

\* Object.keys(DEFAULT_STATE)
DefaultStateKeys ==
  {"startTime", "lastUpdateTime", "deltaTime", "time", "resolution", "mouse",
   "geometryType", "projectionMethod", "dimensions", "morphFactor",
   "rotationSpeed", "universeModifier", "patternIntensity", "gridDensity",
   "glitchIntensity", "plasmaSpeed", "plasmaScale", "moireIntensity",
   "moireScale", "currentNoteFrequency", "audioLevels", "colorScheme",
   "needsShaderUpdate", "_dirtyUniforms", "isRendering", "animationFrameId",
   "shaderProgramName", "callbacks"}

\* the uniform names the constructor, start() and the rebuild add explicitly
ExplicitDirty ==
  {"u_resolution", "u_primaryColor", "u_secondaryColor", "u_backgroundColor",
   "u_audioBass", "u_audioMid", "u_audioHigh", "u_dimension",
   "u_currentNoteFreq", "u_plasmaSpeed", "u_plasmaScale", "u_moireIntensity",
   "u_moireScale"}

\* the cases of the switch in _setUniforms: the uniforms the engine uploads
KnownUniforms ==
  {"u_resolution", "u_mouse", "u_dimension", "u_morphFactor",
   "u_rotationSpeed", "u_universeModifier", "u_patternIntensity",
   "u_gridDensity", "u_glitchIntensity", "u_plasmaSpeed", "u_plasmaScale",
   "u_moireIntensity", "u_moireScale", "u_currentNoteFreq", "u_primaryColor",
   "u_secondaryColor", "u_backgroundColor", "u_audioBass", "u_audioMid",
   "u_audioHigh"}

\* the state fields that hold an uploaded value (nested fields by path)
ValueKeys ==
  {"resolution", "mouse", "dimensions", "morphFactor", "rotationSpeed",
   "universeModifier", "patternIntensity", "gridDensity", "glitchIntensity",
   "plasmaSpeed", "plasmaScale", "moireIntensity", "moireScale",
   "currentNoteFrequency", "colorScheme.primary", "colorScheme.secondary",
   "colorScheme.background", "audioLevels.bass", "audioLevels.mid",
   "audioLevels.high"}

\* the state field each case of the switch reads
StateKeyOf(u) ==
  CASE u = "u_resolution" -> "resolution"
    [] u = "u_mouse" -> "mouse"
    [] u = "u_dimension" -> "dimensions"
    [] u = "u_morphFactor" -> "morphFactor"
    [] u = "u_rotationSpeed" -> "rotationSpeed"
    [] u = "u_universeModifier" -> "universeModifier"
    [] u = "u_patternIntensity" -> "patternIntensity"
    [] u = "u_gridDensity" -> "gridDensity"
    [] u = "u_glitchIntensity" -> "glitchIntensity"
    [] u = "u_plasmaSpeed" -> "plasmaSpeed"
    [] u = "u_plasmaScale" -> "plasmaScale"
    [] u = "u_moireIntensity" -> "moireIntensity"
    [] u = "u_moireScale" -> "moireScale"
    [] u = "u_currentNoteFreq" -> "currentNoteFrequency"
    [] u = "u_primaryColor" -> "colorScheme.primary"
    [] u = "u_secondaryColor" -> "colorScheme.secondary"
    [] u = "u_backgroundColor" -> "colorScheme.background"
    [] u = "u_audioBass" -> "audioLevels.bass"
    [] u = "u_audioMid" -> "audioLevels.mid"
    [] u = "u_audioHigh" -> "audioLevels.high"

\* DEFAULT_STATE values, abstracted to 0 (zero) and 1 (non-zero)
DefaultValue(k) ==
  IF k \in {"resolution", "glitchIntensity", "moireIntensity",
            "audioLevels.bass", "audioLevels.mid", "audioLevels.high"}
  THEN 0 ELSE 1

\* the set both start() and a successful rebuild assign to _dirtyUniforms
DirtyOnReset == DefaultStateKeys \cup ExplicitDirty

\* every name that is ever looked up in a program
AllNames == DefaultStateKeys \cup KnownUniforms \cup {"u_time", "a_position"}

\* the uniforms and the attribute the base shaders declare
ShaderDeclared == KnownUniforms \cup {"u_time", "a_position"}

\* the declared names the fragment shader really reads (the others may be
\* optimised away by the GLSL compiler)
ShaderActive ==
  {"u_resolution", "u_time", "u_mouse", "u_morphFactor", "u_glitchIntensity",
   "u_rotationSpeed", "u_dimension", "u_gridDensity", "a_position"}

\* the sets of names a linked program may resolve (decided by the GL driver)
ResolvableChoices == {AllNames, ShaderDeclared, ShaderActive}

VARIABLES
  \* HypercubeCore.state
  isRendering, animationFrameId, needsShaderUpdate, dirtyUniforms, state,
  geometryType, projectionMethod, aPositionLoc, onRenderCallback,
  \* HypercubeCore.gl (null after dispose, together with state = {})
  gl,
  \* ShaderManager
  shaderSources, compiledShaders, programs, uniformLocations,
  attributeLocations, currentProgramName,
  \* browser and GL context
  rafPending, contextLost, glResolvable, gpuUniform, canvasSize, displaySize,
  \* observation of the run (history variables)
  lastOp, frame, errEpisode, ctxErrors, glAfterLoss, updates

VARIABLES
  \* SoundModule: audioState (disposed = audioState is null) and initPromise
  disposed, isInitialized, isPlaying, currentOscillator, activeNote, arp,
  parameters, initPromise,
  \* startNote calls suspended at `await this.initPromise`
  pendingStarts,
  \* audio graph and browser timers
  voices, acState, armedIntervals, cleanupTimers,
  \* observation of the run: the last operation, and the inputs and result
  \* of the last getAudioLevels call
  soundOp, levels,
  \* audioState.currentNoteFrequency, in hundredths of a hertz
  currentNoteFrequency

soundVars ==
  <<disposed, isInitialized, isPlaying, currentOscillator, activeNote, arp,
    parameters, initPromise, pendingStarts, voices, acState, armedIntervals,
    cleanupTimers, soundOp, levels, currentNoteFrequency>>

coreVars ==
  <<isRendering, animationFrameId, needsShaderUpdate, dirtyUniforms, state,
    geometryType, projectionMethod, aPositionLoc, compiledShaders, programs,
    uniformLocations, attributeLocations, currentProgramName, rafPending,
    contextLost, glResolvable, gpuUniform, canvasSize, displaySize, lastOp,
    frame, errEpisode, ctxErrors, glAfterLoss, updates, onRenderCallback,
    gl, shaderSources>>

VARIABLES
  \* ProjectionManager.projections and GeometryManager.geometries
  projections, geometries,
  \* observation of the run: the last registry call and what it returned
  registryCall,
  \* the call of _initializeAudio that the first gesture started: whether it
  \* is suspended at `await audioContext.resume()`, and how it ended
  initTask,
  \* observation of the run: the WebGL program objects the ShaderManager
  \* created and deleted, the GPU location lookups it made and the last
  \* ShaderManager call with what it returned
  shaderLog,
  \* the page: uiState (glitchEnabled and xyPad.active), and an observation
  \* of the run: the last two calls of mapSoundToVisuals
  uiState, mapperLog

extraVars ==
  <<projections, geometries, registryCall, shaderLog, initTask, uiState,
    mapperLog>>

vars == <<coreVars, soundVars, extraVars>>

\* ------------------------------------------------------------------------
\* The fields as one record, and its commit to the variables
\* ------------------------------------------------------------------------
CoreRec ==
  [isRendering |-> isRendering, animationFrameId |-> animationFrameId,
   needsShaderUpdate |-> needsShaderUpdate, dirtyUniforms |-> dirtyUniforms,
   state |-> state, geometryType |-> geometryType,
   projectionMethod |-> projectionMethod, aPositionLoc |-> aPositionLoc,
   compiledShaders |-> compiledShaders, programs |-> programs,
   uniformLocations |-> uniformLocations,
   attributeLocations |-> attributeLocations,
   currentProgramName |-> currentProgramName, rafPending |-> rafPending,
   contextLost |-> contextLost, glResolvable |-> glResolvable,
   gpuUniform |-> gpuUniform, canvasSize |-> canvasSize,
   displaySize |-> displaySize, lastOp |-> lastOp, frame |-> frame,
   errEpisode |-> errEpisode, ctxErrors |-> ctxErrors,
   glAfterLoss |-> glAfterLoss, updates |-> updates,
   onRenderCallback |-> onRenderCallback, gl |-> gl,
   shaderSources |-> shaderSources, ok |-> TRUE, overflow |-> FALSE,
   threw |-> FALSE, looked |-> {}, built |-> "none"]

AssignCore(s) ==
  /\ isRendering' = s.isRendering
  /\ animationFrameId' = s.animationFrameId
  /\ needsShaderUpdate' = s.needsShaderUpdate
  /\ dirtyUniforms' = s.dirtyUniforms
  /\ state' = s.state
  /\ geometryType' = s.geometryType
  /\ projectionMethod' = s.projectionMethod
  /\ aPositionLoc' = s.aPositionLoc
  /\ compiledShaders' = s.compiledShaders
  /\ programs' = s.programs
  /\ uniformLocations' = s.uniformLocations
  /\ attributeLocations' = s.attributeLocations
  /\ currentProgramName' = s.currentProgramName
  /\ rafPending' = s.rafPending
  /\ contextLost' = s.contextLost
  /\ glResolvable' = s.glResolvable
  /\ gpuUniform' = s.gpuUniform
  /\ canvasSize' = s.canvasSize
  /\ displaySize' = s.displaySize
  /\ lastOp' = s.lastOp
  /\ frame' = s.frame
  /\ errEpisode' = s.errEpisode
  /\ ctxErrors' = s.ctxErrors
  /\ glAfterLoss' = s.glAfterLoss
  /\ updates' = s.updates
  /\ onRenderCallback' = s.onRenderCallback
  /\ gl' = s.gl
  /\ shaderSources' = s.shaderSources

CommitCore(s) == AssignCore(s) /\ UNCHANGED <<soundVars, extraVars>>

Bump(n) == IF n < MaxCount THEN n + 1 ELSE MaxCount

\* a GL call is being made: remember whether the context was already lost
GLCall(s) == [s EXCEPT !.glAfterLoss = @ \/ s.contextLost]

\* ------------------------------------------------------------------------
\* Browser: requestAnimationFrame / cancelAnimationFrame
\* ------------------------------------------------------------------------
FreeIds(s) == (1..MaxRaf) \ (s.rafPending \cup {s.animationFrameId})

MinOf(S) == CHOOSE x \in S : \A y \in S : x <= y

\* this.state.animationFrameId = requestAnimationFrame(this._render.bind(this))
requestAnimationFrame(s) ==
  IF FreeIds(s) = {} THEN [s EXCEPT !.overflow = TRUE]
  ELSE [s EXCEPT !.rafPending = @ \cup {MinOf(FreeIds(s))},
                 !.animationFrameId = MinOf(FreeIds(s))]

cancelAnimationFrame(s, id) == [s EXCEPT !.rafPending = @ \ {id}]

\* ------------------------------------------------------------------------
\* JavaScript: plain objects used as maps, and String.prototype.toLowerCase
\* ------------------------------------------------------------------------
\* the value `null` passed as a name
NullName == "<null>"
Undefined == "<undefined>"
\* what obj[key] evaluates to when key is not an own property of obj but a
\* property of Object.prototype (a function or Object.prototype itself)
ObjectPrototypeMember == "<Object.prototype member>"
ObjectPrototypeKeys ==
  {"constructor", "__proto__", "hasOwnProperty", "isPrototypeOf",
   "propertyIsEnumerable", "toLocaleString", "toString", "valueOf"}

\* obj[key] of an object created by the literal {}
JsGet(obj, key) ==
  IF key \in DOMAIN obj THEN obj[key]
  ELSE IF key \in ObjectPrototypeKeys THEN ObjectPrototypeMember
  ELSE Undefined

\* key in obj
JsIn(obj, key) == key \in DOMAIN obj \/ key \in ObjectPrototypeKeys

\* name.toLowerCase(), on the names the model passes
ToLowerCase(name) ==
  CASE name = "Perspective" -> "perspective"
    [] name = "STEREOGRAPHIC" -> "stereographic"
    [] name = "HyperSphere" -> "hypersphere"
    [] name = "Custom" -> "custom"
    [] name = "toString" -> "tostring"
    [] OTHER -> name

\* !name
Falsy(name) == name \in {NullName, "", Undefined}

\* ------------------------------------------------------------------------
\* ProjectionManager and GeometryManager
\* ------------------------------------------------------------------------
defaultProjection == "perspective"
defaultGeometry == "hypercube"

\* instances of classes that extend BaseProjection / BaseGeometry
ProjectionInstances ==
  {"PerspectiveProjection", "OrthographicProjection",
   "StereographicProjection"}
GeometryInstances ==
  {"HypercubeGeometry", "HypersphereGeometry", "HypertetrahedronGeometry"}
\* an object that is not an instance of either base class
PlainObject == "plainObject"

\* _initProjections()
initProjections ==
  [n \in {"perspective", "orthographic", "stereographic"} |->
     CASE n = "perspective" -> "PerspectiveProjection"
       [] n = "orthographic" -> "OrthographicProjection"
       [] n = "stereographic" -> "StereographicProjection"]

\* _initGeometries()
initGeometries ==
  [n \in {"hypercube", "hypersphere", "hypertetrahedron"} |->
     CASE n = "hypercube" -> "HypercubeGeometry"
       [] n = "hypersphere" -> "HypersphereGeometry"
       [] n = "hypertetrahedron" -> "HypertetrahedronGeometry"]

\* registerProjection(name, projectionInstance): the registry afterwards
registerProjection(reg, name, projectionInstance) ==
  IF projectionInstance \notin ProjectionInstances THEN reg
  ELSE [x \in (DOMAIN reg) \cup {ToLowerCase(name)} |->
          IF x = ToLowerCase(name) THEN projectionInstance ELSE reg[x]]

\* getProjection(name): the value returned
getProjection(reg, name) ==
  LET lowerCaseName ==
        IF Falsy(name) THEN defaultProjection ELSE ToLowerCase(name)
      projection == JsGet(reg, lowerCaseName)
  IN IF Falsy(projection) THEN JsGet(reg, ToLowerCase(defaultProjection))
     ELSE projection

\* registerGeometry(name, geometryInstance): the registry afterwards
registerGeometry(reg, name, geometryInstance) ==
  IF geometryInstance \notin GeometryInstances THEN reg
  ELSE [x \in (DOMAIN reg) \cup {ToLowerCase(name)} |->
          IF x = ToLowerCase(name) THEN geometryInstance ELSE reg[x]]

\* getGeometry(name): the value returned
getGeometry(reg, name) ==
  LET lowerCaseName ==
        IF Falsy(name) THEN defaultGeometry ELSE ToLowerCase(name)
      geometry == JsGet(reg, lowerCaseName)
  IN IF Falsy(geometry) THEN JsGet(reg, ToLowerCase(defaultGeometry))
     ELSE geometry

\* ------------------------------------------------------------------------
\* ShaderManager
\* ------------------------------------------------------------------------
baseVertexShaderName == "base-vertex"
baseFragmentShaderName == "base-fragment"
\* _initShaderTemplates(): the names registered in shaderSources
ShaderTemplates == {baseVertexShaderName, baseFragmentShaderName}
\* the context the canvas gave to the constructor
WebGLContext == "WebGLRenderingContext"

\* `fragment-adapted-base-${projectionMethodName}`
FragmentId(proj) ==
  CASE proj = "perspective" -> "fragment-adapted-base-perspective"
    [] proj = "orthographic" -> "fragment-adapted-base-orthographic"
    [] proj = "stereographic" -> "fragment-adapted-base-stereographic"
    [] proj = "Perspective" -> "fragment-adapted-base-Perspective"
    [] proj = "STEREOGRAPHIC" -> "fragment-adapted-base-STEREOGRAPHIC"
    [] proj = "nosuch" -> "fragment-adapted-base-nosuch"
    [] proj = "constructor" -> "fragment-adapted-base-constructor"
    [] proj = NullName -> "fragment-adapted-base-null"
    [] proj = Undefined -> "fragment-adapted-base-undefined"

Drop(f, k) == [x \in (DOMAIN f) \ {k} |-> f[x]]
Put(f, k, v) == [x \in (DOMAIN f) \cup {k} |-> IF x = k THEN v ELSE f[x]]
EmptyMap == [x \in {} |-> FALSE]

\* the outcomes the GL implementation can give to one createDynamicProgram
\* call: compile status of the two shaders (unless cached) and link status;
\* on a lost context every object creation fails
Outcomes == {"ok", "vertexFail", "fragmentFail", "linkFail"}
PossibleOutcome(s, proj, o) ==
  /\ o = "vertexFail" => baseVertexShaderName \notin s.compiledShaders
  /\ o = "fragmentFail" => FragmentId(proj) \notin s.compiledShaders
  /\ s.contextLost =>
       o = (IF baseVertexShaderName \notin s.compiledShaders THEN "vertexFail"
            ELSE IF FragmentId(proj) \notin s.compiledShaders
                 THEN "fragmentFail" ELSE "linkFail")

\* _createProgram with a slip: the location caches of the name survive
createProgram_keepCaches(s, pn, linked, res) ==
  LET cleared == [s EXCEPT !.programs = @ \ {pn}]
  IN IF ~linked
     THEN [cleared EXCEPT !.ok = FALSE, !.built = "failed",
                          !.uniformLocations = Drop(@, pn),
                          !.attributeLocations = Drop(@, pn)]
     ELSE [cleared EXCEPT
             !.programs = @ \cup {pn},
             !.built = "linked",
             !.uniformLocations =
               IF pn \in DOMAIN @ THEN @ ELSE Put(@, pn, EmptyMap),
             !.attributeLocations =
               IF pn \in DOMAIN @ THEN @ ELSE Put(@, pn, EmptyMap),
             !.glResolvable = res,
             !.gpuUniform = [u \in KnownUniforms |-> 0],
             !.ok = TRUE]

\* _createProgram(programName, vertexShader, fragmentShader)
createProgram(s, pn, linked, res) ==
  LET cleared == [s EXCEPT !.programs = @ \ {pn},
                           !.uniformLocations = Drop(@, pn),
                           !.attributeLocations = Drop(@, pn)]
  IN IF ~linked THEN [cleared EXCEPT !.ok = FALSE, !.built = "failed"]
     ELSE [cleared EXCEPT !.programs = @ \cup {pn},
                          !.built = "linked",
                          !.uniformLocations = Put(@, pn, EmptyMap),
                          !.attributeLocations = Put(@, pn, EmptyMap),
                          !.glResolvable = res,
                          !.gpuUniform = [u \in KnownUniforms |-> 0],
                          !.ok = TRUE]

\* createDynamicProgram with a slip: a failed rebuild of the active program
\* leaves its name in the tracker
createDynamicProgram_keepActive(s, pn, proj, o, res) ==
  IF baseVertexShaderName \notin s.shaderSources THEN [s EXCEPT !.ok = FALSE]
  ELSE IF o = "vertexFail" THEN [GLCall(s) EXCEPT !.ok = FALSE]
  ELSE LET v == [GLCall(s) EXCEPT
                   !.compiledShaders = @ \cup {baseVertexShaderName}]
       IN IF Falsy(getProjection(projections, proj))
          THEN [v EXCEPT !.ok = FALSE]
          ELSE IF getProjection(projections, proj) \notin ProjectionInstances
          THEN [v EXCEPT !.ok = FALSE, !.threw = TRUE]
          ELSE IF baseFragmentShaderName \notin s.shaderSources
          THEN [v EXCEPT !.ok = FALSE]
          ELSE IF o = "fragmentFail" THEN [v EXCEPT !.ok = FALSE]
          ELSE createProgram(
                 [v EXCEPT !.compiledShaders = @ \cup {FragmentId(proj)}],
                 pn, o = "ok", res)

\* createDynamicProgram(programName, geometryTypeName, projectionMethodName)
\* (threw: `projection.getShaderCode is not a function`, a TypeError that
\* nothing in the method catches)
createDynamicProgram(s, pn, proj, o, res) ==
  IF baseVertexShaderName \notin s.shaderSources THEN [s EXCEPT !.ok = FALSE]
  ELSE IF o = "vertexFail" THEN [GLCall(s) EXCEPT !.ok = FALSE]
  ELSE LET v == [GLCall(s) EXCEPT
                   !.compiledShaders = @ \cup {baseVertexShaderName}]
       IN IF Falsy(getProjection(projections, proj))
          THEN [v EXCEPT !.ok = FALSE]
          ELSE IF getProjection(projections, proj) \notin ProjectionInstances
          THEN [v EXCEPT !.ok = FALSE, !.threw = TRUE]
          ELSE IF baseFragmentShaderName \notin s.shaderSources
          THEN [v EXCEPT !.ok = FALSE]
          ELSE IF o = "fragmentFail" THEN [v EXCEPT !.ok = FALSE]
          ELSE LET f == [v EXCEPT !.compiledShaders = @ \cup {FragmentId(proj)}]
                   p == createProgram(f, pn, o = "ok", res)
               IN IF p.currentProgramName = pn /\ ~p.ok
                  THEN [p EXCEPT !.currentProgramName = NoProgram]
                  ELSE p

\* useProgram(programName)
useProgram(s, pn) ==
  IF pn = NoProgram
  THEN IF s.currentProgramName # NoProgram
       THEN [GLCall(s) EXCEPT !.currentProgramName = NoProgram]
       ELSE s
  ELSE IF pn \in s.programs THEN [GLCall(s) EXCEPT !.currentProgramName = pn]
  ELSE IF s.currentProgramName = pn
       THEN [s EXCEPT !.currentProgramName = NoProgram]
       ELSE s

\* gl.getUniformLocation / gl.getAttribLocation of the linked program
GLLookup(s, name) == ~s.contextLost /\ name \in s.glResolvable

\* getUniformLocation(name): TRUE for a location, FALSE for null
UniformLoc(s, name) ==
  IF s.currentProgramName = NoProgram THEN FALSE
  ELSE IF s.currentProgramName \notin s.programs THEN FALSE
  ELSE IF name \in DOMAIN s.uniformLocations[s.currentProgramName]
       THEN s.uniformLocations[s.currentProgramName][name]
       ELSE GLLookup(s, name)

\* the cache after getUniformLocation was called for every name of a set
\* (looked: the names gl.getUniformLocation was called for)
CacheUniforms(s, names) ==
  IF s.currentProgramName = NoProgram
     \/ s.currentProgramName \notin s.programs THEN s
  ELSE LET old == s.uniformLocations[s.currentProgramName]
           fresh == {n \in names : ~JsIn(old, n)}
           new == [n \in (DOMAIN old) \cup fresh |->
                     IF n \in DOMAIN old THEN old[n] ELSE GLLookup(s, n)]
           t == IF fresh = {} THEN s ELSE GLCall(s)
       IN [t EXCEPT !.uniformLocations = Put(@, s.currentProgramName, new),
                    !.looked = @ \cup fresh]

\* getAttributeLocation(name)
AttribLoc(s, name) ==
  IF s.currentProgramName = NoProgram THEN FALSE
  ELSE IF s.currentProgramName \notin s.programs THEN FALSE
  ELSE IF name \in DOMAIN s.attributeLocations[s.currentProgramName]
       THEN s.attributeLocations[s.currentProgramName][name]
       ELSE GLLookup(s, name)

CacheAttrib(s, name) ==
  IF s.currentProgramName = NoProgram
     \/ s.currentProgramName \notin s.programs THEN s
  ELSE LET old == s.attributeLocations[s.currentProgramName]
       IN IF JsIn(old, name) THEN s
          ELSE [GLCall(s) EXCEPT
                  !.attributeLocations =
                    Put(@, s.currentProgramName,
                        Put(old, name, GLLookup(s, name))),
                  !.looked = @ \cup {name}]

\* what getUniformLocation(name) / getAttributeLocation(name) return, given
\* the cache of the active program after the call
LocationNull == "null"
LocationFound == "location"
ReturnedLocation(s, cache, name) ==
  IF s.currentProgramName = NoProgram
     \/ s.currentProgramName \notin s.programs THEN LocationNull
  ELSE IF name \in DOMAIN cache[s.currentProgramName]
       THEN IF cache[s.currentProgramName][name] THEN LocationFound
            ELSE LocationNull
       ELSE JsGet(cache[s.currentProgramName], name)

\* dispose() of the ShaderManager
disposeShaderManager(s) ==
  [GLCall(s) EXCEPT
     !.programs = {}, !.compiledShaders = {}, !.shaderSources = {},
     !.uniformLocations = [x \in {} |-> EmptyMap],
     !.attributeLocations = [x \in {} |-> EmptyMap],
     !.currentProgramName = NoProgram]

\* ------------------------------------------------------------------------
\* HypercubeCore
\* ------------------------------------------------------------------------
\* stop()
stop(s) ==
  IF ~s.isRendering THEN s
  ELSE LET c == IF s.animationFrameId # NoFrame
                THEN cancelAnimationFrame(s, s.animationFrameId) ELSE s
       IN [c EXCEPT !.isRendering = FALSE, !.animationFrameId = NoFrame]

\* start()
start(s) ==
  IF s.isRendering THEN s
  ELSE IF s.gl = NullName \/ s.contextLost THEN s
  ELSE requestAnimationFrame(
         [s EXCEPT !.isRendering = TRUE,
                   !.dirtyUniforms = DirtyOnReset])

\* callbacks.onError(new Error(`Failed to update shader ...`))
onErrorShader(s) == [s EXCEPT !.errEpisode = Bump(@)]

\* callbacks.onError(new Error("WebGL context lost"))
onErrorContext(s) == [s EXCEPT !.ctxErrors = Bump(@)]

\* _updateShaderIfNeeded() with a slip: the flag is not cleared on success
updateShaderIfNeeded_keepFlag(s, o, res) ==
  IF ~s.needsShaderUpdate THEN [s EXCEPT !.ok = TRUE]
  ELSE LET p == createDynamicProgram(s, shaderProgramName,
                                     s.projectionMethod, o, res)
       IN IF ~p.ok
          THEN [stop(onErrorShader(p)) EXCEPT !.ok = FALSE]
          ELSE LET u == useProgram([p EXCEPT !.errEpisode = 0],
                                   shaderProgramName)
                   a == CacheAttrib(u, "a_position")
               IN [GLCall(a) EXCEPT
                     !.aPositionLoc = AttribLoc(u, "a_position"),
                     !.dirtyUniforms = DirtyOnReset,
                     !.ok = TRUE]

\* _updateShaderIfNeeded()
updateShaderIfNeeded(s, o, res) ==
  IF ~s.needsShaderUpdate THEN [s EXCEPT !.ok = TRUE]
  ELSE LET p == createDynamicProgram(s, shaderProgramName,
                                     s.projectionMethod, o, res)
       IN IF ~p.ok
          THEN [stop(onErrorShader(p)) EXCEPT !.ok = FALSE]
          ELSE LET u == useProgram([p EXCEPT !.needsShaderUpdate = FALSE,
                                             !.errEpisode = 0],
                                   shaderProgramName)
                   a == CacheAttrib(u, "a_position")
               IN [GLCall(a) EXCEPT
                     !.aPositionLoc = AttribLoc(u, "a_position"),
                     !.dirtyUniforms = DirtyOnReset,
                     !.ok = TRUE]

\* _checkResize()
checkResize(s) ==
  IF s.canvasSize # s.displaySize
  THEN [GLCall(s) EXCEPT !.canvasSize = s.displaySize,
                         !.state["resolution"] = s.displaySize,
                         !.dirtyUniforms = @ \cup {"u_resolution"}]
  ELSE s

\* _setUniforms() with a slip: a name without a case in the switch stays dirty
setUniforms_keepUnhandled(s) ==
  LET u == useProgram(s, shaderProgramName)
      timeLoc == UniformLoc(u, "u_time")
      dirty == IF timeLoc THEN u.dirtyUniforms
               ELSE u.dirtyUniforms \cup {"u_time"}
      found == {n \in dirty \ {"u_time"} : UniformLoc(u, n)}
      c == CacheUniforms(u, dirty \cup {"u_time"})
      g == IF timeLoc \/ found # {} THEN GLCall(c) ELSE c
  IN [g EXCEPT
        !.dirtyUniforms = dirty \ (found \cap KnownUniforms),
        !.gpuUniform = [n \in KnownUniforms |->
                          IF n \in found THEN s.state[StateKeyOf(n)]
                          ELSE @[n]]]

\* _setUniforms()
setUniforms(s) ==
  LET u == useProgram(s, shaderProgramName)
      timeLoc == UniformLoc(u, "u_time")
      dirty == IF timeLoc THEN u.dirtyUniforms
               ELSE u.dirtyUniforms \cup {"u_time"}
      found == {n \in dirty \ {"u_time"} : UniformLoc(u, n)}
      c == CacheUniforms(u, dirty \cup {"u_time"})
      g == IF timeLoc \/ found # {} THEN GLCall(c) ELSE c
  IN [g EXCEPT
        !.dirtyUniforms = dirty \ found,
        !.gpuUniform = [n \in KnownUniforms |->
                          IF n \in found THEN s.state[StateKeyOf(n)]
                          ELSE @[n]]]


\* updateParameters(newParams) for one key of newParams (the handler loops
\* over the keys; a call with several keys is the sequence of these merges).
\* The keys the model passes: one per branch of the handler, and one key
\* that is not a field of the state.
UpdateKeys ==
  {"morphFactor", "dimensions", "mouse", "audioLevels.bass", "geometryType",
   "projectionMethod", "xyPadActive"}

PrefixMarked ==
  {"plasmaSpeed", "plasmaScale", "moireIntensity", "moireScale",
   "glitchIntensity", "rotationSpeed", "morphFactor", "gridDensity",
   "universeModifier", "patternIntensity"}

NestedUniform(k) ==
  CASE k = "colorScheme.primary" -> "u_primaryColor"
    [] k = "colorScheme.secondary" -> "u_secondaryColor"
    [] k = "colorScheme.background" -> "u_backgroundColor"
    [] k = "audioLevels.bass" -> "u_audioBass"
    [] k = "audioLevels.mid" -> "u_audioMid"
    [] k = "audioLevels.high" -> "u_audioHigh"

NestedKeys ==
  {"colorScheme.primary", "colorScheme.secondary", "colorScheme.background",
   "audioLevels.bass", "audioLevels.mid", "audioLevels.high"}

\* `u_${key}`, with the two renamed uniforms
UniformNameOf(k) ==
  CASE k = "dimensions" -> "u_dimension"
    [] k = "currentNoteFrequency" -> "u_currentNoteFreq"
    [] k = "plasmaSpeed" -> "u_plasmaSpeed"
    [] k = "plasmaScale" -> "u_plasmaScale"
    [] k = "moireIntensity" -> "u_moireIntensity"
    [] k = "moireScale" -> "u_moireScale"
    [] k = "glitchIntensity" -> "u_glitchIntensity"
    [] k = "rotationSpeed" -> "u_rotationSpeed"
    [] k = "morphFactor" -> "u_morphFactor"
    [] k = "gridDensity" -> "u_gridDensity"
    [] k = "universeModifier" -> "u_universeModifier"
    [] k = "patternIntensity" -> "u_patternIntensity"
    [] k = "mouse" -> "u_mouse"
    [] k = "resolution" -> "u_resolution"

updateParameters(s, k, v) ==
  IF k \notin DefaultStateKeys \cup NestedKeys THEN s
  ELSE IF s.gl = NullName THEN s
  ELSE IF k = "geometryType"
  THEN IF s.geometryType # v
       THEN [s EXCEPT !.geometryType = v, !.needsShaderUpdate = TRUE,
                      !.errEpisode = 0]
       ELSE s
  ELSE IF k = "projectionMethod"
  THEN IF s.projectionMethod # v
       THEN [s EXCEPT !.projectionMethod = v, !.needsShaderUpdate = TRUE,
                      !.errEpisode = 0]
       ELSE s
  ELSE IF k \in NestedKeys
  THEN IF s.state[k] # v
       THEN [s EXCEPT !.state[k] = v,
                      !.dirtyUniforms = @ \cup {NestedUniform(k)}]
       ELSE s
  ELSE IF k \in {"mouse", "resolution"}
  THEN [s EXCEPT !.state[k] = v]
  ELSE IF s.state[k] # v
  THEN IF k \in PrefixMarked \/ k \in {"dimensions", "currentNoteFrequency"}
       THEN [s EXCEPT !.state[k] = v,
                      !.dirtyUniforms = @ \cup {UniformNameOf(k)}]
       ELSE [s EXCEPT !.state[k] = v]
  ELSE s

\* what the onRender callback of the embedding page does with the engine
OnRenderBehaviours == {"none", "stop", "stopStart"}
onRender(s, cb) ==
  CASE cb = "none" -> s
    [] cb = "stop" -> stop(s)
    [] cb = "stopStart" -> start(stop(s))

\* where the GL context is lost during a frame, if at all
LossPoints == {"none", "afterCheck", "beforeClear"}

NoFrameInfo ==
  [ran |-> FALSE, flagBefore |-> FALSE, relinks |-> 0, rebuildOk |-> FALSE,
   completed |-> FALSE, allResolvable |-> FALSE, loss |-> "none"]

\* the part of _render after the shader update
renderDraw(s, loss, cb, info) ==
  LET pre == \A n \in s.dirtyUniforms \cup {"u_time"} :
               UniformLoc(useProgram(s, shaderProgramName), n)
      u == setUniforms(s)
      l == IF loss = "beforeClear" THEN [u EXCEPT !.contextLost = TRUE] ELSE u
      c == GLCall(l)
      d == IF c.aPositionLoc THEN GLCall(c)
           ELSE [CacheAttrib(c, "a_position") EXCEPT
                   !.aPositionLoc = AttribLoc(c, "a_position")]
      r == requestAnimationFrame(onRender(d, cb))
  IN [r EXCEPT !.frame = [info EXCEPT !.completed = TRUE,
                                      !.allResolvable = pre]]

\* _render(timestamp), entered with the fired callback already removed from
\* the browser's pending set
render(s, loss, o, res, cb) ==
  IF ~s.isRendering THEN [s EXCEPT !.frame = NoFrameInfo]
  ELSE IF s.gl = NullName \/ s.contextLost
  THEN [onErrorContext(stop(s)) EXCEPT !.frame = NoFrameInfo]
  ELSE LET info == [NoFrameInfo EXCEPT !.ran = TRUE,
                                       !.flagBefore = s.needsShaderUpdate,
                                       !.loss = loss]
           l == IF loss = "afterCheck" THEN [s EXCEPT !.contextLost = TRUE]
                ELSE s
           z == checkResize(l)
       IN IF z.needsShaderUpdate
          THEN LET p == updateShaderIfNeeded(z, o, res)
               IN IF ~p.ok
                  THEN [p EXCEPT !.frame = [info EXCEPT !.relinks = 1]]
                  ELSE renderDraw(p, loss, cb,
                                  [info EXCEPT !.relinks = 1,
                                               !.rebuildOk = TRUE])
          ELSE renderDraw(z, loss, cb, info)

\* dispose() of the HypercubeCore; ext: the context offers the
\* WEBGL_lose_context extension. `this.state = {}` leaves every field of
\* the state undefined.
EmptyState == [k \in {} |-> 0]
disposeCore_keepPrograms(s, ext) ==
  LET a == stop(s)
      b == IF a.gl = NullName THEN a
           ELSE IF ext THEN [GLCall(a) EXCEPT !.contextLost = TRUE]
           ELSE GLCall(a)
  IN [b EXCEPT !.gl = NullName, !.isRendering = FALSE,
               !.animationFrameId = NoFrame, !.needsShaderUpdate = FALSE,
               !.dirtyUniforms = {}, !.state = EmptyState,
               !.geometryType = Undefined, !.projectionMethod = Undefined,
               !.onRenderCallback = "none"]

disposeCore(s, ext) ==
  LET a == stop(s)
      b == IF a.gl = NullName THEN a
           ELSE IF ext
                THEN [disposeShaderManager(a) EXCEPT !.contextLost = TRUE]
           ELSE disposeShaderManager(a)
  IN [b EXCEPT !.gl = NullName, !.isRendering = FALSE,
               !.animationFrameId = NoFrame, !.needsShaderUpdate = FALSE,
               !.dirtyUniforms = {}, !.state = EmptyState,
               !.geometryType = Undefined, !.projectionMethod = Undefined,
               !.onRenderCallback = "none"]

\* ------------------------------------------------------------------------
\* The registries after construction, and the empty observation records
\* ------------------------------------------------------------------------
NoRegistryCall ==
  [op |-> "none", name |-> "", instance |-> Undefined, returned |-> Undefined]

NoShaderCall ==
  [op |-> "none", name |-> "", returned |-> Undefined, threw |-> FALSE]

\* objects: the program objects gl.createProgram() returned and that were
\* linked, in the order of their creation; object: the object stored in
\* programs[name]; lookups: the result of every gl.getUniformLocation /
\* gl.getAttribLocation call, by kind, program object and name
NoShaderLog ==
  [objects |-> <<>>, object |-> [x \in {} |-> 0],
   lookups |-> [x \in {} |-> FALSE], repeated |-> FALSE,
   call |-> NoShaderCall]

NoMapperCall == [called |-> FALSE]

InteractionEvents == {"click", "keydown", "touchstart"}
NoInitTask ==
  [suspended |-> FALSE, outcome |-> "none", listeners |-> InteractionEvents,
   waiting |-> 0, contexts |-> 0, graphs |-> 0, resolveCalls |-> 0]

ExtraInit ==
  /\ projections = initProjections
  /\ geometries = initGeometries
  /\ registryCall = NoRegistryCall
  /\ shaderLog = NoShaderLog
  /\ initTask = NoInitTask
  /\ uiState = [glitchEnabled |-> FALSE, xyPadActive |-> FALSE,
                activeNoteSource |-> NullName, pressedKeys |-> {}]
  /\ mapperLog = [prev |-> NoMapperCall, last |-> NoMapperCall]

\* ------------------------------------------------------------------------
\* HypercubeCore: initial state (after the constructor) and actions
\* ------------------------------------------------------------------------
\* the fields as the constructor has set them before its try block
BeforeInit ==
  [isRendering |-> FALSE, animationFrameId |-> NoFrame,
   needsShaderUpdate |-> TRUE, dirtyUniforms |-> DirtyOnReset,
   state |-> [k \in ValueKeys |-> DefaultValue(k)],
   geometryType |-> "hypercube", projectionMethod |-> "perspective",
   aPositionLoc |-> FALSE, compiledShaders |-> {}, programs |-> {},
   uniformLocations |-> [x \in {} |-> EmptyMap],
   attributeLocations |-> [x \in {} |-> EmptyMap],
   currentProgramName |-> NoProgram, rafPending |-> {},
   contextLost |-> FALSE, glResolvable |-> {},
   gpuUniform |-> [u \in KnownUniforms |-> 0],
   canvasSize |-> 1, displaySize |-> 1, lastOp |-> "constructor",
   frame |-> NoFrameInfo, errEpisode |-> 0, ctxErrors |-> 0,
   glAfterLoss |-> FALSE, updates |-> 0, onRenderCallback |-> "none",
   gl |-> WebGLContext, shaderSources |-> ShaderTemplates,
   ok |-> TRUE, overflow |-> FALSE, threw |-> FALSE, looked |-> {},
   built |-> "none"]

\* constructor: _setupWebGLState(); _initBuffers(); needsShaderUpdate = true;
\* _updateShaderIfNeeded()
constructor(canvas, display, cb, o, res) ==
  updateShaderIfNeeded(
    [BeforeInit EXCEPT !.canvasSize = canvas, !.displaySize = display,
                       !.onRenderCallback = cb],
    o, res)

Constructed(callbacks) ==
  \E canvas \in {1}, display \in 1..MaxSize, cb \in callbacks,
     o \in Outcomes, res \in ResolvableChoices :
    /\ PossibleOutcome(BeforeInit, "perspective", o)
    /\ LET s == constructor(canvas, display, cb, o, res)
       IN /\ isRendering = s.isRendering
          /\ animationFrameId = s.animationFrameId
          /\ needsShaderUpdate = s.needsShaderUpdate
          /\ dirtyUniforms = s.dirtyUniforms
          /\ state = s.state
          /\ geometryType = s.geometryType
          /\ projectionMethod = s.projectionMethod
          /\ aPositionLoc = s.aPositionLoc
          /\ compiledShaders = s.compiledShaders
          /\ programs = s.programs
          /\ uniformLocations = s.uniformLocations
          /\ attributeLocations = s.attributeLocations
          /\ currentProgramName = s.currentProgramName
          /\ rafPending = s.rafPending
          /\ contextLost = s.contextLost
          /\ glResolvable = s.glResolvable
          /\ gpuUniform = s.gpuUniform
          /\ canvasSize = s.canvasSize
          /\ displaySize = s.displaySize
          /\ lastOp = s.lastOp
          /\ frame = s.frame
          /\ errEpisode = s.errEpisode
          /\ ctxErrors = s.ctxErrors
          /\ glAfterLoss = s.glAfterLoss
          /\ updates = s.updates
          /\ onRenderCallback = s.onRenderCallback
          /\ gl = s.gl
          /\ shaderSources = s.shaderSources

Done(s, op) ==
  /\ ~s.overflow
  /\ CommitCore([s EXCEPT !.lastOp = op,
                          !.frame = IF op = "frame" THEN @ ELSE NoFrameInfo])

Start == Done(start(CoreRec),
              IF isRendering \/ contextLost THEN "startNoop" ELSE "start")

Stop == Done(stop(CoreRec), "stop")

UpdateParameters ==
  /\ updates < MaxUpdates
  /\ \E k \in UpdateKeys :
       \E v \in (IF k = "geometryType" THEN GeometryTypes
                 ELSE IF k = "projectionMethod" THEN ProjectionInputs
                 ELSE 0..MaxVal) :
         Done([updateParameters(CoreRec, k, v) EXCEPT !.updates = @ + 1],
              "updateParameters")

\* a requested animation frame fires
Render ==
  \E id \in rafPending, loss \in LossPoints, o \in Outcomes,
     res \in ResolvableChoices :
    LET s == [CoreRec EXCEPT !.rafPending = @ \ {id}]
        l == IF loss = "afterCheck" THEN [s EXCEPT !.contextLost = TRUE] ELSE s
    IN /\ loss # "none" => ~contextLost
       /\ PossibleOutcome(l, projectionMethod, o)
       /\ Done(render(s, loss, o, res, onRenderCallback), "frame")

\* the browser loses the GL context between two callbacks
LoseContext ==
  /\ ~contextLost
  /\ Done([CoreRec EXCEPT !.contextLost = TRUE], "loseContext")

\* the page layout changes the canvas's client size
ResizeDisplay ==
  \E d \in 1..MaxSize :
    /\ d # displaySize
    /\ Done([CoreRec EXCEPT !.displaySize = d], "resizeDisplay")

\* ------------------------------------------------------------------------
\* SoundModule: names and presets
\* ------------------------------------------------------------------------
NoNote == "none"
NoOsc == 0
NoInterval == 0

\* noteFrequencies, in hundredths of a hertz
noteFrequencies ==
  [n \in {"C4", "C#4", "D4", "D#4", "E4", "F4", "F#4", "G4", "G#4", "A4",
          "A#4", "B4", "C5"} |->
     CASE n = "C4" -> 26163 [] n = "C#4" -> 27718 [] n = "D4" -> 29366
       [] n = "D#4" -> 31113 [] n = "E4" -> 32963 [] n = "F4" -> 34923
       [] n = "F#4" -> 36999 [] n = "G4" -> 39200 [] n = "G#4" -> 41530
       [] n = "A4" -> 44000 [] n = "A#4" -> 46616 [] n = "B4" -> 49388
       [] n = "C5" -> 52325]

KnownNote(n) == n \in DOMAIN noteFrequencies

\* currentNoteFrequency: null
NoFrequency == 0

\* Math.pow(this.semitoneRatio, semitoneOffset) with semitoneRatio = 2^(1/12),
\* in ten-thousandths, for the offsets of one octave
FrequencyScale == 10000
SemitonePowers ==
  <<10000, 10595, 11225, 11892, 12599, 13348, 14142, 14983, 15874, 16818,
    17818, 18877, 20000>>
PowSemitoneRatio(semitoneOffset) == SemitonePowers[semitoneOffset + 1]

\* baseFrequency * Math.pow(this.semitoneRatio, semitoneOffset)
StepFrequency(baseFrequency, semitoneOffset) ==
  (baseFrequency * PowSemitoneRatio(semitoneOffset)) \div FrequencyScale

\* the notes the keyboard sends, and one name that is not in the table
NoteInputs == {"C4", "A4", "H9"}

\* getPresetsDefinition(): the literal structures. Times, gains, Q and wet
\* levels are in hundredths; frequencies in hertz; rates in steps per second.
PresetNames ==
  {"default", "vaporwave", "ambient_drone", "synthwave_lead", "grimoire_pulse"}

defaultStructure ==
  [oscillator |-> [type |-> "sawtooth", gain |-> 50],
   filter |-> [type |-> "lowpass", frequency |-> 1500, Q |-> 100],
   envelope |-> [attack |-> 5, release |-> 50],
   effects |->
     [delay |-> [active |-> FALSE, time |-> 30, feedback |-> 30],
      reverb |-> [active |-> FALSE, decay |-> 150, wet |-> 30],
      glitch |-> [active |-> FALSE],
      arpeggiator |-> [active |-> FALSE, rate |-> 8, pattern |-> <<0, 7, 12>>]]]

getPresetsDefinition ==
  [p \in PresetNames |->
     CASE p = "default" -> defaultStructure
       [] p = "vaporwave" ->
            [oscillator |-> [type |-> "sine", gain |-> 40],
             filter |-> [frequency |-> 800, Q |-> 100],
             envelope |-> [attack |-> 80, release |-> 200],
             effects |->
               [delay |-> [active |-> TRUE, time |-> 50, feedback |-> 40],
                reverb |-> [active |-> TRUE, decay |-> 300, wet |-> 70],
                arpeggiator |-> [active |-> FALSE, rate |-> 4]]]
       [] p = "ambient_drone" ->
            [oscillator |-> [type |-> "sine", gain |-> 40],
             filter |-> [frequency |-> 600, Q |-> 150],
             envelope |-> [attack |-> 250, release |-> 400],
             effects |->
               [delay |-> [active |-> TRUE, time |-> 70, feedback |-> 55],
                reverb |-> [active |-> TRUE, decay |-> 500, wet |-> 80],
                arpeggiator |-> [active |-> FALSE]]]
       [] p = "synthwave_lead" ->
            [oscillator |-> [type |-> "sawtooth", gain |-> 60],
             filter |-> [frequency |-> 1200, Q |-> 500],
             envelope |-> [attack |-> 2, release |-> 40],
             effects |->
               [delay |-> [active |-> TRUE, time |-> 25, feedback |-> 30],
                reverb |-> [active |-> TRUE, decay |-> 150, wet |-> 40],
                arpeggiator |-> [active |-> TRUE, rate |-> 12,
                                 pattern |-> <<0, 7, 12, 7>>]]]
       [] p = "grimoire_pulse" ->
            [oscillator |-> [type |-> "square", gain |-> 40],
             filter |-> [type |-> "bandpass", frequency |-> 900, Q |-> 600],
             envelope |-> [attack |-> 1, release |-> 20],
             effects |->
               [delay |-> [active |-> TRUE, time |-> 15, feedback |-> 60],
                reverb |-> [active |-> FALSE],
                glitch |-> [active |-> TRUE],
                arpeggiator |-> [active |-> TRUE, rate |-> 10,
                                 pattern |-> <<0, 3, 7, 10>>]]]]

\* Object.assign(target, source)
ObjectAssign_keepTarget(target, source) ==
  [k \in (DOMAIN target) \cup (DOMAIN source) |->
     IF k \in DOMAIN target THEN target[k] ELSE source[k]]

ObjectAssign(target, source) ==
  [k \in (DOMAIN target) \cup (DOMAIN source) |->
     IF k \in DOMAIN source THEN source[k] ELSE target[k]]

\* the merge of applyPresetAudio: a copy of the default structure with each
\* group of the preset assigned over it
MergedParams(preset) ==
  [g \in DOMAIN defaultStructure |->
     IF g \notin DOMAIN preset THEN defaultStructure[g]
     ELSE IF g # "effects" THEN ObjectAssign(defaultStructure[g], preset[g])
     ELSE [e \in (DOMAIN defaultStructure.effects) \cup (DOMAIN preset.effects) |->
             IF e \notin DOMAIN preset.effects THEN defaultStructure.effects[e]
             ELSE IF e \in DOMAIN defaultStructure.effects
             THEN ObjectAssign(defaultStructure.effects[e], preset.effects[e])
             ELSE preset.effects[e]]]

PresetInputs == {"synthwave_lead", "nosuchpreset"}
RateInputs == {12}
PatternInputs == {<<>>}
EffectInputs == {"arpeggiator"}

\* ------------------------------------------------------------------------
\* SoundModule: the fields as one record, and its commit to the variables
\* ------------------------------------------------------------------------
SoundRec ==
  [disposed |-> disposed, isInitialized |-> isInitialized,
   isPlaying |-> isPlaying, currentOscillator |-> currentOscillator,
   activeNote |-> activeNote, arp |-> arp, parameters |-> parameters,
   initPromise |-> initPromise, pendingStarts |-> pendingStarts,
   voices |-> voices, acState |-> acState,
   armedIntervals |-> armedIntervals, cleanupTimers |-> cleanupTimers,
   soundOp |-> soundOp, levels |-> levels,
   currentNoteFrequency |-> currentNoteFrequency, overflow |-> FALSE]

AssignSound(a) ==
  /\ disposed' = a.disposed
  /\ isInitialized' = a.isInitialized
  /\ isPlaying' = a.isPlaying
  /\ currentOscillator' = a.currentOscillator
  /\ activeNote' = a.activeNote
  /\ arp' = a.arp
  /\ parameters' = a.parameters
  /\ initPromise' = a.initPromise
  /\ pendingStarts' = a.pendingStarts
  /\ voices' = a.voices
  /\ acState' = a.acState
  /\ armedIntervals' = a.armedIntervals
  /\ cleanupTimers' = a.cleanupTimers
  /\ soundOp' = a.soundOp
  /\ levels' = a.levels
  /\ currentNoteFrequency' = a.currentNoteFrequency

CommitSound(a) == AssignSound(a) /\ UNCHANGED <<coreVars, extraVars>>

\* ------------------------------------------------------------------------
\* Web Audio: oscillators. A voice is the oscillator/filter/gain chain that
\* _playSustainedNote or _playArpNote builds and connects to the master
\* gain; `voices` holds the connected chains in the order of their creation
\* and a chain's id is its position.
\* ------------------------------------------------------------------------
\* the chain is connected and osc.start(now) is called
NewVoice(a, kind, stopState) ==
  IF Len(a.voices) >= MaxVoices THEN [a EXCEPT !.overflow = TRUE]
  ELSE [a EXCEPT
          !.voices = Append(@, [kind |-> kind, stop |-> stopState,
                                toDelay |-> 0, toReverb |-> 0]),
          !.currentOscillator = Len(a.voices) + 1]

\* osc.disconnect(), filter.disconnect(), gainNode.disconnect()
Disconnect(vs, i) ==
  [j \in 1..(Len(vs) - 1) |-> IF j < i THEN vs[j] ELSE vs[j + 1]]

\* osc.stop(t) with t later than now
ScheduleStop(v) == IF v.stop = "passed" THEN v ELSE [v EXCEPT !.stop = "scheduled"]

\* osc.stop(now)
StopNow(v) == [v EXCEPT !.stop = "passed"]

\* _connectEffectsToNode(gain node of voice i). toDelay / toReverb count the
\* edges from the voice's gain node to the delay and the convolver node.
\* sourceNode.disconnect(destination) raises InvalidAccessError when the
\* source has no edge to that destination; the one try block around both
\* effects is then left and nothing after the failing call runs.
connectEffectsToNode_noDisconnect(a, i) ==
  IF i = NoOsc \/ a.disposed \/ ~a.isInitialized THEN a
  ELSE LET fx == a.parameters.effects
       IN [a EXCEPT
             !.voices[i].toDelay = IF fx.delay.active THEN 1 ELSE @,
             !.voices[i].toReverb = IF fx.reverb.active THEN 1 ELSE @]

connectEffectsToNode(a, i) ==
  IF i = NoOsc \/ a.disposed \/ ~a.isInitialized THEN a
  ELSE LET fx == a.parameters.effects
           v == a.voices[i]
           v1 == [v EXCEPT !.toDelay = IF fx.delay.active THEN 1 ELSE 0]
           v2 == [v1 EXCEPT !.toReverb = IF fx.reverb.active THEN 1 ELSE 0]
       IN IF v.toDelay = 0 THEN a
          ELSE IF v1.toReverb = 0 THEN [a EXCEPT !.voices[i] = v1]
          ELSE [a EXCEPT !.voices[i] = v2]

FreeIntervalIds(a) == (1..MaxTimers) \ (a.armedIntervals \cup {a.arp.intervalId})

\* ------------------------------------------------------------------------
\* SoundModule: methods
\* ------------------------------------------------------------------------
cleanupCurrentNoteNodes(a) ==
  IF a.disposed \/ a.currentOscillator = NoOsc THEN a
  ELSE [a EXCEPT !.voices = Disconnect(@, a.currentOscillator),
                 !.currentOscillator = NoOsc]

stopSustainedNote(a, useRelease) ==
  IF a.disposed \/ a.currentOscillator = NoOsc THEN a
  ELSE [a EXCEPT
          !.voices[a.currentOscillator] = ScheduleStop(@),
          !.cleanupTimers = @ \cup {[osc |-> a.currentOscillator,
                                     arp |-> FALSE]}]

playSustainedNote(a, note) ==
  IF ~KnownNote(note) \/ a.acState = "none" THEN a
  ELSE LET b == NewVoice(a, "sustained", "none")
       IN IF b.overflow THEN b
          ELSE [connectEffectsToNode(b, b.currentOscillator)
                EXCEPT !.isPlaying = TRUE,
                       !.currentNoteFrequency = noteFrequencies[note]]

playArpNote(a, frequency) ==
  LET b == IF a.currentOscillator # NoOsc
           THEN cleanupCurrentNoteNodes(
                  [a EXCEPT !.voices[a.currentOscillator] = StopNow(@)])
           ELSE a
      c == NewVoice(b, "arp", "scheduled")
  IN IF c.overflow THEN c
     ELSE [connectEffectsToNode(c, c.currentOscillator)
           EXCEPT !.currentNoteFrequency = frequency]

stopArpeggiator_noClear(a) ==
  IF a.disposed \/ a.arp.intervalId = NoInterval THEN a
  ELSE LET b == [a EXCEPT !.arp.intervalId = NoInterval]
       IN IF b.currentOscillator # NoOsc
          THEN [b EXCEPT
                  !.voices[b.currentOscillator] = ScheduleStop(@),
                  !.cleanupTimers = @ \cup {[osc |-> b.currentOscillator,
                                             arp |-> TRUE]}]
          ELSE b

stopArpeggiator(a) ==
  IF a.disposed \/ a.arp.intervalId = NoInterval THEN a
  ELSE LET b == [a EXCEPT !.armedIntervals = @ \ {a.arp.intervalId},
                          !.arp.intervalId = NoInterval]
       IN IF b.currentOscillator # NoOsc
          THEN [b EXCEPT
                  !.voices[b.currentOscillator] = ScheduleStop(@),
                  !.cleanupTimers = @ \cup {[osc |-> b.currentOscillator,
                                             arp |-> TRUE]}]
          ELSE b

arpStep_offByOne(a) ==
  IF \/ a.disposed
     \/ ~a.arp.active
     \/ Len(a.arp.pattern) = 0
     \/ a.arp.baseNote = NoNote
     \/ ~KnownNote(a.arp.baseNote)
  THEN stopArpeggiator(a)
  ELSE LET baseFrequency == noteFrequencies[a.arp.baseNote]
           semitoneOffset ==
             a.arp.pattern[((a.arp.currentStep + 1) % Len(a.arp.pattern)) + 1]
           stepFrequency == StepFrequency(baseFrequency, semitoneOffset)
       IN [playArpNote(a, stepFrequency)
           EXCEPT !.arp.currentStep = @ + 1,
                  !.overflow = @ \/ a.arp.currentStep >= MaxSteps]

\* _arpStep() with a slip: an invalid state is skipped, the timer keeps running
arpStep_noSelfStop(a) ==
  IF \/ a.disposed
     \/ ~a.arp.active
     \/ Len(a.arp.pattern) = 0
     \/ a.arp.baseNote = NoNote
     \/ ~KnownNote(a.arp.baseNote)
  THEN a
  ELSE LET baseFrequency == noteFrequencies[a.arp.baseNote]
           semitoneOffset ==
             a.arp.pattern[(a.arp.currentStep % Len(a.arp.pattern)) + 1]
           stepFrequency == StepFrequency(baseFrequency, semitoneOffset)
       IN [playArpNote(a, stepFrequency)
           EXCEPT !.arp.currentStep = @ + 1,
                  !.overflow = @ \/ a.arp.currentStep >= MaxSteps]

arpStep(a) ==
  IF \/ a.disposed
     \/ ~a.arp.active
     \/ Len(a.arp.pattern) = 0
     \/ a.arp.baseNote = NoNote
     \/ ~KnownNote(a.arp.baseNote)
  THEN stopArpeggiator(a)
  ELSE LET baseFrequency == noteFrequencies[a.arp.baseNote]
           semitoneOffset ==
             a.arp.pattern[(a.arp.currentStep % Len(a.arp.pattern)) + 1]
           stepFrequency == StepFrequency(baseFrequency, semitoneOffset)
       IN [playArpNote(a, stepFrequency)
           EXCEPT !.arp.currentStep = @ + 1,
                  !.overflow = @ \/ a.arp.currentStep >= MaxSteps]

startArpeggiator(a) ==
  IF \/ a.disposed
     \/ ~a.isInitialized
     \/ a.arp.intervalId # NoInterval
     \/ ~a.arp.active
  THEN a
  ELSE LET b == arpStep(a)
       IN IF FreeIntervalIds(b) = {} THEN [b EXCEPT !.overflow = TRUE]
          ELSE [b EXCEPT
                  !.arp.intervalId = MinOf(FreeIntervalIds(b)),
                  !.armedIntervals = @ \cup {MinOf(FreeIntervalIds(b))}]

\* the body of startNote after `await this.initPromise`
startNote_anyNote(a, note) ==
  IF \/ a.disposed
     \/ a.initPromise # "true"
     \/ a.acState # "running"
  THEN a
  ELSE LET b == [a EXCEPT !.activeNote = note]
       IN IF b.arp.active
          THEN IF ~b.isPlaying
               THEN [startArpeggiator(
                       [b EXCEPT !.arp.baseNote = note,
                                 !.arp.currentStep = 0])
                     EXCEPT !.isPlaying = TRUE]
               ELSE [b EXCEPT !.arp.baseNote = note]
          ELSE playSustainedNote(stopSustainedNote(b, FALSE), note)

startNote(a, note) ==
  IF \/ a.disposed
     \/ a.initPromise # "true"
     \/ ~KnownNote(note)
     \/ a.acState # "running"
  THEN a
  ELSE LET b == [a EXCEPT !.activeNote = note]
       IN IF b.arp.active
          THEN IF ~b.isPlaying
               THEN [startArpeggiator(
                       [b EXCEPT !.arp.baseNote = note,
                                 !.arp.currentStep = 0])
                     EXCEPT !.isPlaying = TRUE]
               ELSE [b EXCEPT !.arp.baseNote = note]
          ELSE playSustainedNote(stopSustainedNote(b, FALSE), note)

stopNote_keepTimer(a, useRelease) ==
  IF a.disposed \/ ~a.isPlaying THEN a
  ELSE LET b == IF ~a.arp.active /\ a.currentOscillator # NoOsc
                THEN stopSustainedNote(a, useRelease)
                ELSE a
       IN [b EXCEPT !.isPlaying = FALSE, !.activeNote = NoNote]

stopNote(a, useRelease) ==
  IF a.disposed \/ ~a.isPlaying THEN a
  ELSE LET b == IF a.arp.active /\ a.arp.intervalId # NoInterval
                THEN stopArpeggiator(a)
                ELSE IF ~a.arp.active /\ a.currentOscillator # NoOsc
                THEN stopSustainedNote(a, useRelease)
                ELSE a
       IN [b EXCEPT !.isPlaying = FALSE, !.activeNote = NoNote]

\* the walk of setParameter over type.split('.'): every segment must be an
\* own property and the value reached must be an object. `type` is the
\* sequence of segments.
PathResolves(params, type) ==
  \/ Len(type) = 1 /\ type[1] \in DOMAIN params
  \/ /\ Len(type) = 2
     /\ type[1] = "effects"
     /\ "effects" \in DOMAIN params
     /\ type[2] \in DOMAIN params.effects

\* paramGroup[name] = value
StoreParam(params, type, name, value) ==
  IF Len(type) = 1
  THEN [params EXCEPT ![type[1]] = Put(@, name, value)]
  ELSE [params EXCEPT !.effects[type[2]] = Put(@, name, value)]

ReadParam(params, type, name) ==
  IF Len(type) = 1 THEN params[type[1]][name] ELSE params.effects[type[2]][name]

ArpGroup == <<"effects", "arpeggiator">>

setParameter_lateStore(a, type, name, value) ==
  IF a.disposed \/ ~PathResolves(a.parameters, type) THEN a
  ELSE IF ~a.isInitialized \/ a.acState = "none" THEN a
  ELSE LET b == [a EXCEPT !.parameters = StoreParam(@, type, name, value)]
       IN IF type = ArpGroup /\ name = "rate"
          THEN LET c == [b EXCEPT !.arp.rate = value]
               IN IF c.arp.active /\ c.arp.intervalId # NoInterval
                  THEN LET e == stopArpeggiator(c)
                       IN IF e.activeNote # NoNote
                          THEN [startArpeggiator(e) EXCEPT !.isPlaying = TRUE]
                          ELSE e
                  ELSE c
          ELSE IF type = ArpGroup /\ name = "pattern"
          THEN [b EXCEPT !.arp.pattern = value]
          ELSE b

setParameter(a, type, name, value) ==
  IF a.disposed \/ ~PathResolves(a.parameters, type) THEN a
  ELSE LET b == [a EXCEPT !.parameters = StoreParam(@, type, name, value)]
       IN IF ~b.isInitialized \/ b.acState = "none" THEN b
          ELSE IF type = ArpGroup /\ name = "rate"
          THEN LET c == [b EXCEPT !.arp.rate = value]
               IN IF c.arp.active /\ c.arp.intervalId # NoInterval
                  THEN LET e == stopArpeggiator(c)
                       IN IF e.activeNote # NoNote
                          THEN [startArpeggiator(e) EXCEPT !.isPlaying = TRUE]
                          ELSE e
                  ELSE c
          ELSE IF type = ArpGroup /\ name = "pattern"
          THEN [b EXCEPT !.arp.pattern = value]
          ELSE b

\* toggleEffect without the stop of the running sequence when the
\* arpeggiator is switched off
toggleEffect_keepTimer(a, effectName, isActive) ==
  IF a.disposed THEN a
  ELSE IF effectName \notin DOMAIN a.parameters.effects THEN a
  ELSE IF a.parameters.effects[effectName].active = isActive THEN a
  ELSE LET b == [a EXCEPT !.parameters.effects[effectName].active = isActive]
       IN IF effectName = "arpeggiator"
          THEN LET c == [b EXCEPT !.arp.active = isActive]
               IN IF isActive
                  THEN IF c.activeNote # NoNote /\ c.arp.intervalId = NoInterval
                       THEN [startArpeggiator(
                               [stopSustainedNote(c, FALSE) EXCEPT
                                  !.arp.baseNote = c.activeNote,
                                  !.arp.currentStep = 0])
                             EXCEPT !.isPlaying = TRUE]
                       ELSE c
                  ELSE c
          ELSE connectEffectsToNode(b, b.currentOscillator)

toggleEffect(a, effectName, isActive) ==
  IF a.disposed THEN a
  ELSE IF effectName \notin DOMAIN a.parameters.effects THEN a
  ELSE IF a.parameters.effects[effectName].active = isActive THEN a
  ELSE LET b == [a EXCEPT !.parameters.effects[effectName].active = isActive]
       IN IF effectName = "arpeggiator"
          THEN LET c == [b EXCEPT !.arp.active = isActive]
               IN IF isActive
                  THEN IF c.activeNote # NoNote /\ c.arp.intervalId = NoInterval
                       THEN [startArpeggiator(
                               [stopSustainedNote(c, FALSE) EXCEPT
                                  !.arp.baseNote = c.activeNote,
                                  !.arp.currentStep = 0])
                             EXCEPT !.isPlaying = TRUE]
                       ELSE c
                  ELSE IF c.arp.intervalId # NoInterval
                       THEN LET e == stopArpeggiator(c)
                            IN IF e.activeNote # NoNote
                               THEN playSustainedNote(e, e.activeNote)
                               ELSE [e EXCEPT !.isPlaying = FALSE]
                       ELSE c
          ELSE connectEffectsToNode(b, b.currentOscillator)

\* toggleEffect(name, parameters.effects[name].active) for every effect, in
\* the key order of the merged structure
ReToggle(a, effectName) ==
  IF effectName \in DOMAIN a.parameters.effects
  THEN toggleEffect(a, effectName, a.parameters.effects[effectName].active)
  ELSE a

applyCurrentToggleStates(a) ==
  IF a.disposed THEN a
  ELSE ReToggle(ReToggle(ReToggle(ReToggle(a, "delay"), "reverb"), "glitch"),
                "arpeggiator")

\* setOscillatorType / setFilterType with a type of the valid list
setOscillatorType(a, type) ==
  [a EXCEPT !.parameters.oscillator = Put(@, "type", type)]

setFilterType(a, type) ==
  [a EXCEPT !.parameters.filter = Put(@, "type", type)]

\* the calls applyPresetAudio makes on an initialized engine
ApplyToNodes(a) ==
  LET p == a.parameters
      s1 == setFilterType(setOscillatorType(a, p.oscillator.type), p.filter.type)
      s2 == setParameter(s1, <<"filter">>, "frequency", p.filter.frequency)
      s3 == setParameter(s2, <<"filter">>, "Q", p.filter.Q)
      s4 == setParameter(s3, <<"effects", "delay">>, "time", p.effects.delay.time)
      s5 == setParameter(s4, <<"effects", "delay">>, "feedback",
                         p.effects.delay.feedback)
      s6 == setParameter(s5, <<"effects", "reverb">>, "decay",
                         p.effects.reverb.decay)
      s7 == setParameter(s6, <<"effects", "reverb">>, "wet", p.effects.reverb.wet)
      s8 == setParameter(s7, ArpGroup, "rate", p.effects.arpeggiator.rate)
      s9 == setParameter(s8, ArpGroup, "pattern", p.effects.arpeggiator.pattern)
  IN applyCurrentToggleStates(s9)

applyPresetAudio(a, presetName) ==
  IF a.disposed \/ presetName \notin PresetNames THEN a
  ELSE LET merged == MergedParams(getPresetsDefinition[presetName])
           b == [a EXCEPT !.parameters = merged,
                          !.arp.rate = merged.effects.arpeggiator.rate,
                          !.arp.pattern = merged.effects.arpeggiator.pattern]
       IN IF b.isInitialized THEN ApplyToNodes(b) ELSE b

initializeAudio(a, ok) ==
  IF a.disposed \/ a.isInitialized THEN a
  ELSE IF ok
  THEN [applyCurrentToggleStates(
          [a EXCEPT !.acState = "running", !.isInitialized = TRUE])
        EXCEPT !.initPromise = "true"]
  ELSE [a EXCEPT !.isInitialized = FALSE, !.initPromise = "false"]

\* _initializeAudio() up to `await this.audioState.audioContext.resume()`,
\* with a context that is created suspended
beginInitializeAudio(a) ==
  IF a.disposed \/ a.isInitialized THEN a
  ELSE [a EXCEPT !.acState = "suspended"]

\* what the rest of _initializeAudio does when the await returns. On a
\* disposed engine the first statement reads this.audioState.audioContext
\* of null; the catch block then calls this.resolveInit, which is null, and
\* that TypeError leaves the async function: its promise rejects.
ResumedOutcome(a) == IF a.disposed THEN "rejected" ELSE "resolved"
resumeInitializeAudio(a, ok) ==
  IF a.disposed THEN a ELSE initializeAudio(a, ok)

\* the rest of _initializeAudio after the await, which does not test
\* isInitialized again; a promise that is settled ignores resolveInit
continueInitializeAudio(a, ok) ==
  IF a.disposed THEN a
  ELSE IF ok
  THEN [applyCurrentToggleStates(
          [a EXCEPT !.acState = "running", !.isInitialized = TRUE])
        EXCEPT !.initPromise = IF @ = "pending" THEN "true" ELSE @]
  ELSE [a EXCEPT !.isInitialized = FALSE,
                 !.initPromise = IF @ = "pending" THEN "false" ELSE @]

\* ------------------------------------------------------------------------
\* SoundModule.getAudioLevels. Levels are in hundredths (Unit is 1.0).
\* ------------------------------------------------------------------------
Unit == 100
fftSize == 512
bufferLength == fftSize \div 2
bassEndFreq == 250
midEndFreq == 2000
highEndFreq == 6000

\* the device sample rates of the AudioContext
SampleRates == {8000, 16000, 22050, 44100, 48000, 96000, 192000}

\* contents of the analyser's byte buffer
BufferInputs == {"zeros", "full", "half", "faint", "bassOnly", "alternating"}

dataArray(buffer) ==
  [i \in 0..(bufferLength - 1) |->
     CASE buffer = "zeros" -> 0
       [] buffer = "full" -> 255
       [] buffer = "half" -> 128
       [] buffer = "faint" -> 1
       [] buffer = "bassOnly" -> IF i <= 2 THEN 255 ELSE 0
       [] buffer = "alternating" -> IF i % 2 = 0 THEN 255 ELSE 0]

MinNum(x, y) == IF x < y THEN x ELSE y
MaxNum(x, y) == IF x > y THEN x ELSE y

\* Math.min(bufferLength - 1, Math.floor(freq / nyquist * bufferLength)),
\* nyquist = sampleRate / 2
BandEndIndex(freq, sampleRate) ==
  MinNum(bufferLength - 1, (2 * freq * bufferLength) \div sampleRate)

\* the bins the summing loop adds to each band
BandBins(sampleRate) ==
  LET bassEndIndex == BandEndIndex(bassEndFreq, sampleRate)
      midEndIndex == BandEndIndex(midEndFreq, sampleRate)
      highEndIndex == BandEndIndex(highEndFreq, sampleRate)
      bins == 0..(bufferLength - 1)
  IN [bass |-> {i \in bins : i <= bassEndIndex},
      mid |-> {i \in bins : ~(i <= bassEndIndex) /\ i >= bassEndIndex + 1
                               /\ i <= midEndIndex},
      high |-> {i \in bins : ~(i <= bassEndIndex)
                                /\ ~(i >= bassEndIndex + 1 /\ i <= midEndIndex)
                                /\ i >= midEndIndex + 1 /\ i <= highEndIndex}]

\* the sum the loop accumulates for one band; the loop's 256 iterations are
\* added up by halving the index range
RECURSIVE SumRange(_, _, _, _)
SumRange(data, bins, lo, hi) ==
  IF lo > hi THEN 0
  ELSE IF lo = hi THEN (IF lo \in bins THEN data[lo] ELSE 0)
  ELSE SumRange(data, bins, lo, (lo + hi) \div 2)
       + SumRange(data, bins, ((lo + hi) \div 2) + 1, hi)

SumOver(data, bins) == SumRange(data, bins, 0, bufferLength - 1)

\* floor(100 * (sum / (count + epsilon)) / 255.0), epsilon = 1e-6: the
\* epsilon makes the quotient fall just short of the exact ratio
AvgPercent(sum, count) ==
  IF count = 0 \/ sum = 0 THEN 0
  ELSE (100 * sum - 1) \div (255 * count)

\* Math.min(1.0, Math.max(0.0, Math.pow(avg, exponent) * gain)): 0 for a
\* zero average, 1.0 from the average at which pow(avg, exponent) * gain
\* reaches 1 (saturation, in percent), and in between an increasing value
\* below 1.0, which is represented here by linear interpolation
Level_noClamp(sum, count, saturation) ==
  IF sum = 0 \/ count = 0 THEN 0
  ELSE MaxNum(1, (AvgPercent(sum, count) * Unit) \div saturation)

Level(sum, count, saturation) ==
  IF sum = 0 \/ count = 0 THEN 0
  ELSE IF AvgPercent(sum, count) >= saturation THEN Unit
  ELSE MinNum(Unit - 1,
              MaxNum(1, (AvgPercent(sum, count) * Unit) \div saturation))

\* the averages (percent) at which each band's curve reaches 1.0:
\* (1/1.8)^(1/0.8), (1/1.4)^(1/0.9), (1/2.2)^(1/0.7), rounded up
bassSaturation == 48
midSaturation == 69
highSaturation == 33

ZeroLevels == [bass |-> 0, mid |-> 0, high |-> 0]

NoLevels == [called |-> FALSE, ready |-> FALSE, sampleRate |-> 0,
             buffer |-> "zeros", out |-> ZeroLevels]

getAudioLevels_unguarded(a, buffer, sampleRate) ==
  LET data == dataArray(buffer)
      band == BandBins(sampleRate)
  IN [bass |-> Level(SumOver(data, band.bass), Cardinality(band.bass),
                     bassSaturation),
      mid |-> Level(SumOver(data, band.mid), Cardinality(band.mid),
                    midSaturation),
      high |-> Level(SumOver(data, band.high), Cardinality(band.high),
                     highSaturation)]

getAudioLevels(a, buffer, sampleRate) ==
  IF a.disposed \/ ~a.isInitialized \/ a.acState = "none" THEN ZeroLevels
  ELSE LET data == dataArray(buffer)
           band == BandBins(sampleRate)
       IN [bass |-> Level(SumOver(data, band.bass), Cardinality(band.bass),
                          bassSaturation),
           mid |-> Level(SumOver(data, band.mid), Cardinality(band.mid),
                         midSaturation),
           high |-> Level(SumOver(data, band.high), Cardinality(band.high),
                          highSaturation)]

\* the audioState object before applyPresetAudio fills it
BeforeSoundInit ==
  [disposed |-> FALSE, isInitialized |-> FALSE, isPlaying |-> FALSE,
   currentOscillator |-> NoOsc, activeNote |-> NoNote,
   arp |-> [active |-> FALSE, intervalId |-> NoInterval, rate |-> 8,
            pattern |-> <<0, 4, 7>>, currentStep |-> 0, baseNote |-> NoNote],
   parameters |-> [oscillator |-> EmptyMap, filter |-> EmptyMap,
                   envelope |-> EmptyMap,
                   effects |-> [delay |-> EmptyMap, reverb |-> EmptyMap,
                                arpeggiator |-> EmptyMap, glitch |-> EmptyMap]],
   initPromise |-> "pending", pendingStarts |-> <<>>, voices |-> <<>>,
   acState |-> "none", armedIntervals |-> {}, cleanupTimers |-> {},
   soundOp |-> "constructor", levels |-> NoLevels,
   currentNoteFrequency |-> NoFrequency, overflow |-> FALSE]

SoundModule(initialPresetName) == applyPresetAudio(BeforeSoundInit, initialPresetName)

dispose(a) ==
  IF a.disposed THEN a
  ELSE LET b == stopNote(stopArpeggiator(a), FALSE)
           c == IF b.isInitialized /\ b.acState # "none"
                THEN [cleanupCurrentNoteNodes(b) EXCEPT !.acState = "closed"]
                ELSE b
       IN [BeforeSoundInit EXCEPT
             !.disposed = TRUE, !.initPromise = "null",
             !.voices = c.voices, !.acState = c.acState,
             !.armedIntervals = c.armedIntervals,
             !.cleanupTimers = c.cleanupTimers,
             !.levels = a.levels]

SoundConstructed(presets) ==
  \E p \in presets :
    \E a \in {SoundModule(p)} :
       /\ disposed = a.disposed
       /\ isInitialized = a.isInitialized
       /\ isPlaying = a.isPlaying
       /\ currentOscillator = a.currentOscillator
       /\ activeNote = a.activeNote
       /\ arp = a.arp
       /\ parameters = a.parameters
       /\ initPromise = a.initPromise
       /\ pendingStarts = a.pendingStarts
       /\ voices = a.voices
       /\ acState = a.acState
       /\ armedIntervals = a.armedIntervals
       /\ cleanupTimers = a.cleanupTimers
       /\ soundOp = a.soundOp
       /\ levels = a.levels
       /\ currentNoteFrequency = a.currentNoteFrequency

\* ------------------------------------------------------------------------
\* SoundModule: actions
\* ------------------------------------------------------------------------
\* a cleanup timeout compares the oscillator it captured with
\* currentOscillator; once that oscillator is no longer the current one the
\* comparison can never succeed again, so the timeout is forgotten
LiveTimers(a) ==
  {t \in a.cleanupTimers : ~a.disposed /\ t.osc = a.currentOscillator}

SoundDone(a, op) ==
  /\ ~a.overflow
  /\ CommitSound([a EXCEPT !.soundOp = op, !.cleanupTimers = LiveTimers(a)])

\* promise continuations run before the next event handler or timer callback
NoRunnableContinuation == pendingStarts = <<>> \/ initPromise = "pending"

\* startNote(note) is called and suspends at `await this.initPromise`
StartNote ==
  \E note \in NoteInputs :
    /\ ~disposed
    /\ Len(pendingStarts) < MaxPending
    /\ SoundDone([SoundRec EXCEPT !.pendingStarts = Append(@, note)],
                 "startNoteCall")

\* a suspended startNote resumes once the promise has settled
ResumeStartNote ==
  /\ pendingStarts # <<>>
  /\ initPromise # "pending"
  /\ SoundDone(startNote([SoundRec EXCEPT !.pendingStarts = Tail(@)],
                         Head(pendingStarts)),
               "startNote")

StopNote ==
  \E useRelease \in BOOLEAN :
    /\ NoRunnableContinuation
    /\ SoundDone(stopNote(SoundRec, useRelease), "stopNote")

ToggleEffect ==
  \E effectName \in EffectInputs, isActive \in BOOLEAN :
    /\ NoRunnableContinuation
    /\ SoundDone(toggleEffect(SoundRec, effectName, isActive), "toggleEffect")

SetParameter ==
  /\ NoRunnableContinuation
  /\ \/ \E value \in RateInputs :
          SoundDone(setParameter(SoundRec, ArpGroup, "rate", value), "setRate")
     \/ \E value \in PatternInputs :
          SoundDone(setParameter(SoundRec, ArpGroup, "pattern", value),
                    "setPattern")

ApplyPresetAudio ==
  \E presetName \in PresetInputs :
    /\ NoRunnableContinuation
    /\ SoundDone(applyPresetAudio(SoundRec, presetName), "applyPresetAudio")

\* the first user gesture runs initAudio
InitializeAudio ==
  \E ok \in BOOLEAN :
    /\ ~disposed
    /\ initPromise = "pending"
    /\ NoRunnableContinuation
    /\ SoundDone(initializeAudio(SoundRec, ok), "initializeAudio")

\* an armed setInterval timer calls _arpStep
ArpTick ==
  \E id \in armedIntervals :
    /\ NoRunnableContinuation
    /\ SoundDone(arpStep(SoundRec), "arpStep")

\* a cleanup setTimeout of _stopSustainedNote or _stopArpeggiator fires
CleanupTimerFires ==
  \E t \in cleanupTimers :
    /\ NoRunnableContinuation
    /\ LET a == [SoundRec EXCEPT !.cleanupTimers = @ \ {t}]
           hit == /\ ~a.disposed
                  /\ a.currentOscillator = t.osc
                  /\ (t.arp => a.arp.intervalId = NoInterval)
       IN SoundDone(IF hit THEN cleanupCurrentNoteNodes(a) ELSE a,
                    "cleanupTimer")

\* audio time reaches an oscillator's scheduled stop
OscillatorEnds ==
  \E i \in 1..Len(voices) :
    /\ NoRunnableContinuation
    /\ acState = "running"
    /\ voices[i].stop = "scheduled"
    /\ SoundDone([SoundRec EXCEPT !.voices[i].stop = "passed"], "oscEnded")

Dispose ==
  /\ ~disposed
  /\ NoRunnableContinuation
  /\ SoundDone(dispose(SoundRec), "dispose")

\* the render loop of the page asks for the levels; the analyser holds some
\* buffer and the context runs at some sample rate
GetAudioLevels ==
  \E buffer \in BufferInputs, sampleRate \in SampleRates :
    /\ NoRunnableContinuation
    /\ SoundDone([SoundRec EXCEPT
                    !.levels = [called |-> TRUE,
                                ready |-> ~disposed /\ isInitialized,
                                sampleRate |-> sampleRate,
                                buffer |-> buffer,
                                out |-> getAudioLevels(SoundRec, buffer,
                                                       sampleRate)]],
                 "getAudioLevels")

\* applyPresetAudio with presets that define different keys, and a name
\* that is no preset
ParamPresets == {"vaporwave", "grimoire_pulse", "nosuchpreset"}

ApplyAnyPreset ==
  \E presetName \in ParamPresets :
    /\ NoRunnableContinuation
    /\ SoundDone(applyPresetAudio(SoundRec, presetName),
                 IF presetName \in PresetNames /\ ~disposed
                 THEN "applyPresetAudio" ELSE "applyPresetNoop")

\* setParameter(type, name, value) calls: groups that exist, with a stored
\* key or a new one, and paths that name no group ('nosuch',
\* 'effects.chorus', the empty string) or a value that is no object
\* ('filter.frequency')
ParamInputs ==
  {[type |-> <<"filter">>, name |-> "frequency", value |-> 2000],
   [type |-> <<"oscillator">>, name |-> "detune", value |-> 5],
   [type |-> ArpGroup, name |-> "rate", value |-> 6],
   [type |-> <<"nosuch">>, name |-> "frequency", value |-> 2000],
   [type |-> <<"effects", "chorus">>, name |-> "wet", value |-> 10],
   [type |-> <<"filter", "frequency">>, name |-> "value", value |-> 2000],
   [type |-> <<"">>, name |-> "gain", value |-> 5]}

SetAnyParameter ==
  \E in \in ParamInputs :
    /\ NoRunnableContinuation
    /\ LET a == setParameter(SoundRec, in.type, in.name, in.value)
       IN SoundDone(a, IF a.parameters = parameters /\ a.arp = arp
                       THEN "setParameterNoop" ELSE "setParameter")

\* the effect toggles other than the arpeggiator, and a name that is no
\* effect
RoutingInputs == {"delay", "reverb", "glitch", "chorus"}

ToggleOnName ==
  [e \in RoutingInputs |->
     CASE e = "delay" -> "delayOn" [] e = "reverb" -> "reverbOn"
       [] e = "glitch" -> "glitchOn" [] OTHER -> "toggleNoop"]

ToggleOffName ==
  [e \in RoutingInputs |->
     CASE e = "delay" -> "delayOff" [] e = "reverb" -> "reverbOff"
       [] e = "glitch" -> "glitchOff" [] OTHER -> "toggleNoop"]

ToggleOnOffName ==
  [e \in RoutingInputs |->
     CASE e = "delay" -> "delayOnOff" [] e = "reverb" -> "reverbOnOff"
       [] e = "glitch" -> "glitchOnOff" [] OTHER -> "toggleNoop"]

\* soundOp after a toggle: "...OnOff" names an off that directly follows the
\* on of the same effect
ToggleOpName(a, effectName, isActive) ==
  IF a.parameters = parameters THEN "toggleNoop"
  ELSE IF isActive THEN ToggleOnName[effectName]
  ELSE IF soundOp = ToggleOnName[effectName] THEN ToggleOnOffName[effectName]
  ELSE ToggleOffName[effectName]

ToggleRouting ==
  \E effectName \in RoutingInputs, isActive \in BOOLEAN :
    /\ NoRunnableContinuation
    /\ LET a == toggleEffect(SoundRec, effectName, isActive)
       IN SoundDone(a, ToggleOpName(a, effectName, isActive))

\* presets that differ in their delay and reverb flags
RoutingPresets == {"default", "grimoire_pulse"}

ApplyRoutingPreset ==
  \E presetName \in RoutingPresets :
    /\ NoRunnableContinuation
    /\ SoundDone(applyPresetAudio(SoundRec, presetName), "applyPresetAudio")

\* setParameter on the delay group: its flag and one of its values
SetDelayParameter ==
  /\ NoRunnableContinuation
  /\ \/ \E value \in BOOLEAN :
          SoundDone(setParameter(SoundRec, <<"effects", "delay">>, "active",
                                 value), "setActive")
     \/ \E value \in {50} :
          SoundDone(setParameter(SoundRec, <<"effects", "delay">>, "time",
                                 value), "setTime")

\* ------------------------------------------------------------------------
\* Specifications
\* ------------------------------------------------------------------------
\* the engine as the page builds it: no onRender callback
InitCore ==
  ExtraInit /\ Constructed({"none"}) /\ SoundConstructed({"vaporwave"})

NextCore ==
  \/ Start
  \/ Stop
  \/ UpdateParameters
  \/ Render
  \/ LoseContext

SpecCore == InitCore /\ [][NextCore]_vars

\* the engine with an onRender callback that stops or restarts the loop
InitLoop ==
  /\ ExtraInit
  /\ Constructed(OnRenderBehaviours)
  /\ SoundConstructed({"vaporwave"})

NextLoop ==
  \/ Start
  \/ Stop
  \/ Render
  \/ LoseContext
  \/ ResizeDisplay

SpecLoop == InitLoop /\ [][NextLoop]_vars

\* the sound module beside an engine that linked its program and is idle
InitialPresets == {"vaporwave"}

InitSound ==
  /\ ExtraInit
  /\ SoundConstructed(InitialPresets)
  /\ Constructed({"none"})
  /\ displaySize = 1
  /\ currentProgramName # NoProgram
  /\ glResolvable = AllNames

NextSound ==
  \/ StartNote
  \/ ResumeStartNote
  \/ StopNote
  \/ ToggleEffect
  \/ SetParameter
  \/ ApplyPresetAudio
  \/ InitializeAudio
  \/ ArpTick
  \/ CleanupTimerFires
  \/ OscillatorEnds
  \/ Dispose

SpecSound == InitSound /\ [][NextSound]_vars

\* the sound module with its effect routing exercised, arpeggiator off
NextRouting ==
  \/ StartNote
  \/ ResumeStartNote
  \/ StopNote
  \/ ToggleRouting
  \/ ApplyRoutingPreset
  \/ SetDelayParameter
  \/ InitializeAudio
  \/ CleanupTimerFires
  \/ OscillatorEnds
  \/ Dispose

SpecRouting == InitSound /\ [][NextRouting]_vars

\* the sound module with its stored parameters exercised
NextParams ==
  \/ StartNote
  \/ ResumeStartNote
  \/ StopNote
  \/ ApplyAnyPreset
  \/ SetAnyParameter
  \/ InitializeAudio
  \/ CleanupTimerFires
  \/ OscillatorEnds
  \/ Dispose

SpecParams == InitSound /\ [][NextParams]_vars

\* the arpeggiator: notes pressed and released, the arpeggiator switched,
\* patterns set from the controls, and the step timer
ArpPatternInputs == {<<0, 4, 7>>, <<0, 12>>}

SetArpPattern ==
  \E value \in ArpPatternInputs :
    /\ NoRunnableContinuation
    /\ SoundDone(setParameter(SoundRec, ArpGroup, "pattern", value),
                 "setPattern")

NextArp ==
  \/ StartNote
  \/ ResumeStartNote
  \/ StopNote
  \/ ToggleEffect
  \/ SetArpPattern
  \/ InitializeAudio
  \/ ArpTick
  \/ CleanupTimerFires
  \/ OscillatorEnds

SpecArp == InitSound /\ [][NextArp]_vars

\* the sound module with the runtime's scheduling: a settled promise resumes
\* its continuation, an armed timer fires and audio time advances
NextVoices ==
  \/ StartNote
  \/ ResumeStartNote
  \/ StopNote
  \/ ToggleEffect
  \/ InitializeAudio
  \/ ArpTick
  \/ CleanupTimerFires
  \/ OscillatorEnds

SpecVoices ==
  /\ InitSound
  /\ [][NextVoices]_vars
  /\ WF_vars(ResumeStartNote)
  /\ WF_vars(ArpTick)
  /\ WF_vars(CleanupTimerFires)
  /\ WF_vars(OscillatorEnds)

\* the sequencer driven by every call that touches it: notes, the toggle,
\* the rate, pattern and active parameters, and presets with the
\* arpeggiator off (vaporwave) and on (synthwave_lead)
SequencerPresets == {"vaporwave", "synthwave_lead"}

SequencerParamInputs ==
  {[name |-> "rate", value |-> 12],
   [name |-> "pattern", value |-> <<>>],
   [name |-> "active", value |-> TRUE],
   [name |-> "active", value |-> FALSE]}

ApplySequencerPreset ==
  \E presetName \in SequencerPresets :
    /\ NoRunnableContinuation
    /\ SoundDone(applyPresetAudio(SoundRec, presetName), "applyPresetAudio")

SetSequencerParameter ==
  \E in \in SequencerParamInputs :
    /\ NoRunnableContinuation
    /\ SoundDone(setParameter(SoundRec, ArpGroup, in.name, in.value),
                 "setParameter")

NextSequencer ==
  \/ StartNote
  \/ ResumeStartNote
  \/ StopNote
  \/ ToggleEffect
  \/ SetSequencerParameter
  \/ ApplySequencerPreset
  \/ InitializeAudio
  \/ ArpTick
  \/ CleanupTimerFires

SpecSequencer == InitSound /\ [][NextSequencer]_vars

\* the sound module polled for its levels before, after and without a
\* successful initialization
NextLevels ==
  \/ InitializeAudio
  \/ GetAudioLevels
  \/ Dispose

SpecLevels == InitSound /\ [][NextLevels]_vars


\* ------------------------------------------------------------------------
\* ShaderManager used directly (as the page does before it constructs the
\* engine): actions and specification
\* ------------------------------------------------------------------------
\* the variables hold the fields of the record s
CoreIs(s) ==
  /\ isRendering = s.isRendering
  /\ animationFrameId = s.animationFrameId
  /\ needsShaderUpdate = s.needsShaderUpdate
  /\ dirtyUniforms = s.dirtyUniforms
  /\ state = s.state
  /\ geometryType = s.geometryType
  /\ projectionMethod = s.projectionMethod
  /\ aPositionLoc = s.aPositionLoc
  /\ compiledShaders = s.compiledShaders
  /\ programs = s.programs
  /\ uniformLocations = s.uniformLocations
  /\ attributeLocations = s.attributeLocations
  /\ currentProgramName = s.currentProgramName
  /\ rafPending = s.rafPending
  /\ contextLost = s.contextLost
  /\ glResolvable = s.glResolvable
  /\ gpuUniform = s.gpuUniform
  /\ canvasSize = s.canvasSize
  /\ displaySize = s.displaySize
  /\ lastOp = s.lastOp
  /\ frame = s.frame
  /\ errEpisode = s.errEpisode
  /\ ctxErrors = s.ctxErrors
  /\ glAfterLoss = s.glAfterLoss
  /\ updates = s.updates
  /\ onRenderCallback = s.onRenderCallback
  /\ gl = s.gl
  /\ shaderSources = s.shaderSources

\* the WebGL objects behind _createProgram: gl.deleteProgram(oldProgram) of
\* the program stored under the name, and the new linked program
LogCreateProgram(log, s, pn, linked) ==
  LET old == IF pn \in s.programs /\ pn \in DOMAIN log.object
             THEN [log EXCEPT !.objects[log.object[pn]].deleted = TRUE,
                              !.object = Drop(@, pn)]
             ELSE log
  IN IF ~linked THEN old
     ELSE [old EXCEPT
             !.objects = Append(@, [name |-> pn, deleted |-> FALSE]),
             !.object = Put(@, pn, Len(old.objects) + 1)]

ProgramHandle == "program"

\* the observation of one createDynamicProgram call (s before, s2 after)
LogCompose(log, s, s2, pn) ==
  LET l == IF s2.built = "none" THEN log
           ELSE LogCreateProgram(log, s, pn, s2.built = "linked")
  IN [l EXCEPT !.call =
        [op |-> "createDynamicProgram", name |-> pn,
         returned |-> IF s2.threw THEN Undefined
                      ELSE IF s2.ok THEN ProgramHandle ELSE LocationNull,
         threw |-> s2.threw]]

\* the program object stored under a name (0: one that was not created by
\* an observed call)
ObjectOf(log, pn) == IF pn \in DOMAIN log.object THEN log.object[pn] ELSE 0

\* the observation of one location call: the GPU lookups it made against
\* the program object of the active program, and what it returned
LogLookups(log, s, s2, kind, name, returned) ==
  LET keys == {<<kind, ObjectOf(log, s.currentProgramName), n>> :
                 n \in s2.looked}
  IN [log EXCEPT
        !.repeated = @ \/ (keys \cap DOMAIN log.lookups # {}),
        !.lookups = [k \in (DOMAIN log.lookups) \cup keys |->
                       IF k \in keys THEN GLLookup(s, k[3])
                       ELSE log.lookups[k]],
        !.call = [op |-> kind, name |-> name, returned |-> returned,
                  threw |-> FALSE]]

\* the WebGL objects behind dispose(): gl.deleteProgram of every program
LogDispose(log, s) ==
  [log EXCEPT
     !.objects = [i \in DOMAIN log.objects |->
                    IF \E pn \in s.programs :
                         pn \in DOMAIN log.object /\ log.object[pn] = i
                    THEN [log.objects[i] EXCEPT !.deleted = TRUE]
                    ELSE log.objects[i]],
     !.object = [x \in {} |-> 0],
     !.call = [op |-> "dispose", name |-> "", returned |-> Undefined,
               threw |-> FALSE]]

LogCall(log, op, pn) ==
  [log EXCEPT !.call = [op |-> op, name |-> pn, returned |-> Undefined,
                        threw |-> FALSE]]

CommitShader(s, log, op) ==
  /\ AssignCore([s EXCEPT !.lastOp = op])
  /\ shaderLog' = log
  /\ UNCHANGED <<soundVars, projections, geometries, registryCall, initTask,
                 uiState, mapperLog>>

\* the names the model passes to the ShaderManager
ComposeProjectionInputs ==
  {"perspective", "STEREOGRAPHIC", "nosuch", NullName, "constructor"}
UseProgramInputs == {shaderProgramName, "missing", NoProgram}
UniformNameInputs == {"u_plasmaSpeed", "toString"}
AttributeNameInputs == {"a_position"}
\* the sets of names the driver may resolve in a program built here
ShaderResolvableChoices == {ShaderDeclared, ShaderActive}

ComposeProgram ==
  \E pn \in ProgramNames, proj \in ComposeProjectionInputs, o \in Outcomes,
     res \in ShaderResolvableChoices :
    /\ Len(shaderLog.objects) < MaxBuilds
    /\ PossibleOutcome(CoreRec, proj, o)
    /\ \E s2 \in {createDynamicProgram(CoreRec, pn, proj, o, res)} :
         CommitShader(s2, LogCompose(shaderLog, CoreRec, s2, pn),
                      "createDynamicProgram")

UseProgram ==
  \E pn \in UseProgramInputs :
    CommitShader(useProgram(CoreRec, pn),
                 LogCall(shaderLog, "useProgram", pn), "useProgram")

GetUniformLocation ==
  \E name \in UniformNameInputs :
    \E s2 \in {CacheUniforms(CoreRec, {name})} :
      CommitShader(s2,
                   LogLookups(shaderLog, CoreRec, s2, "uniform", name,
                              ReturnedLocation(s2, s2.uniformLocations, name)),
                   "getUniformLocation")

GetAttributeLocation ==
  \E name \in AttributeNameInputs :
    \E s2 \in {CacheAttrib(CoreRec, name)} :
      CommitShader(s2,
                   LogLookups(shaderLog, CoreRec, s2, "attribute", name,
                              ReturnedLocation(s2, s2.attributeLocations,
                                               name)),
                   "getAttributeLocation")

DisposeShaderManager ==
  CommitShader(disposeShaderManager(CoreRec), LogDispose(shaderLog, CoreRec),
               "disposeShaderManager")

\* the ShaderManager as its constructor leaves it, the engine not yet built
InitShader ==
  /\ ExtraInit
  /\ CoreIs(BeforeInit)
  /\ SoundConstructed({"vaporwave"})

NextShader ==
  \/ ComposeProgram
  \/ UseProgram
  \/ GetUniformLocation
  \/ GetAttributeLocation
  \/ DisposeShaderManager
  \/ LoseContext

SpecShader == InitShader /\ [][NextShader]_vars

\* ------------------------------------------------------------------------
\* ProjectionManager and GeometryManager: actions and specification
\* ------------------------------------------------------------------------
\* the names and objects the model passes to the registries
RegisterNameInputs == {"perspective", "hypercube", "Custom"}
ProjectionInstanceInputs ==
  {"StereographicProjection", "OrthographicProjection", PlainObject}
GeometryInstanceInputs == {"HypersphereGeometry", PlainObject}
ProjectionLookupInputs ==
  {"perspective", "Perspective", "STEREOGRAPHIC", "custom", "nosuch", "",
   NullName, "constructor"}
GeometryLookupInputs ==
  {"hypersphere", "HyperSphere", "Custom", "nosuch", "", NullName,
   "constructor"}

RegistryDone(projs, geoms, call) ==
  /\ projections' = projs
  /\ geometries' = geoms
  /\ registryCall' = call
  /\ UNCHANGED <<coreVars, soundVars, shaderLog, initTask, uiState,
                 mapperLog>>

RegisterProjection ==
  \E name \in RegisterNameInputs, instance \in ProjectionInstanceInputs :
    RegistryDone(registerProjection(projections, name, instance), geometries,
                 [op |-> "registerProjection", name |-> name,
                  instance |-> instance, returned |-> Undefined])

GetProjection ==
  \E name \in ProjectionLookupInputs :
    RegistryDone(projections, geometries,
                 [op |-> "getProjection", name |-> name,
                  instance |-> Undefined,
                  returned |-> getProjection(projections, name)])

RegisterGeometry ==
  \E name \in RegisterNameInputs, instance \in GeometryInstanceInputs :
    RegistryDone(projections, registerGeometry(geometries, name, instance),
                 [op |-> "registerGeometry", name |-> name,
                  instance |-> instance, returned |-> Undefined])

GetGeometry ==
  \E name \in GeometryLookupInputs :
    RegistryDone(projections, geometries,
                 [op |-> "getGeometry", name |-> name,
                  instance |-> Undefined,
                  returned |-> getGeometry(geometries, name)])

NextRegistry ==
  \/ RegisterProjection
  \/ GetProjection
  \/ RegisterGeometry
  \/ GetGeometry

SpecRegistry == InitShader /\ [][NextRegistry]_vars

\* ------------------------------------------------------------------------
\* Disposal of the three engines: actions and specification
\* ------------------------------------------------------------------------
\* dispose() of the HypercubeCore, on a live or an already disposed engine
DisposeCore ==
  \E ext \in BOOLEAN :
    Done(disposeCore(CoreRec, ext),
         IF gl = NullName THEN "disposeAgain" ELSE "dispose")

\* dispose() of the SoundModule, on a live or an already disposed engine
DisposeSound ==
  /\ NoRunnableContinuation
  /\ SoundDone(dispose(SoundRec),
               IF disposed THEN "disposeAgain" ELSE "dispose")

\* startNote(note) on a disposed engine: `await this.initPromise` awaits
\* null and the call resumes at once
StartNoteAfterDispose ==
  \E note \in NoteInputs :
    /\ disposed
    /\ pendingStarts = <<>>
    /\ SoundDone([SoundRec EXCEPT !.pendingStarts = Append(@, note)],
                 "startNoteCall")

\* getAudioLevels() on a disposed engine
GetAudioLevelsAfterDispose ==
  \E buffer \in BufferInputs :
    /\ disposed
    /\ NoRunnableContinuation
    /\ SoundDone([SoundRec EXCEPT
                    !.levels = [called |-> TRUE, ready |-> FALSE,
                                sampleRate |-> 44100, buffer |-> buffer,
                                out |-> getAudioLevels(SoundRec, buffer,
                                                       44100)]],
                 "getAudioLevels")

\* The engines share no state, so a behaviour of this specification runs
\* either the visual engine with its ShaderManager or the SoundModule. It
\* follows an engine through its life (the render loop, the note and the
\* sequencer), its disposal and the calls made afterwards.
SoundIdle == soundOp = "constructor"
CoreIdle == lastOp = "constructor"
CoreDisposed == gl = NullName
ShaderManagerDisposed == shaderSources = {}

NextDispose ==
  \/ SoundIdle /\ Start
  \/ SoundIdle /\ Stop
  \/ SoundIdle /\ Render
  \/ SoundIdle /\ DisposeCore
  \/ SoundIdle /\ DisposeShaderManager
  \/ SoundIdle /\ CoreDisposed /\ UpdateParameters
  \/ SoundIdle /\ ShaderManagerDisposed /\ UseProgram
  \/ SoundIdle /\ ShaderManagerDisposed /\ GetUniformLocation
  \/ CoreIdle /\ InitializeAudio
  \/ CoreIdle /\ StartNote
  \/ CoreIdle /\ StartNoteAfterDispose
  \/ CoreIdle /\ ResumeStartNote
  \/ CoreIdle /\ StopNote
  \/ CoreIdle /\ ToggleEffect
  \/ CoreIdle /\ disposed /\ SetParameter
  \/ CoreIdle /\ GetAudioLevelsAfterDispose
  \/ CoreIdle /\ ArpTick
  \/ CoreIdle /\ DisposeSound

\* the page's onRender callback does nothing or stops the engine
InitDispose ==
  /\ ExtraInit
  /\ Constructed({"none", "stop"})
  /\ SoundConstructed({"vaporwave"})

SpecDispose == InitDispose /\ [][NextDispose]_vars

\* ------------------------------------------------------------------------
\* Initialization of the SoundModule in two steps, and its disposal
\* ------------------------------------------------------------------------
InitDone(a, task, op) ==
  /\ AssignSound([a EXCEPT !.soundOp = op, !.cleanupTimers = LiveTimers(a)])
  /\ initTask' = task
  /\ UNCHANGED <<coreVars, projections, geometries, registryCall, shaderLog,
                 uiState, mapperLog>>

\* the first user gesture runs initAudio; the new AudioContext is suspended
BeginInitializeAudio ==
  /\ ~disposed
  /\ ~isInitialized
  /\ initPromise = "pending"
  /\ ~initTask.suspended
  /\ InitDone(beginInitializeAudio(SoundRec),
              [initTask EXCEPT !.suspended = TRUE], "beginInitializeAudio")

\* audioContext.resume() settles and _initializeAudio continues
ResumeInitializeAudio ==
  \E ok \in BOOLEAN :
    /\ initTask.suspended
    /\ InitDone(resumeInitializeAudio(SoundRec, ok),
                [initTask EXCEPT !.suspended = FALSE,
                                 !.outcome = ResumedOutcome(SoundRec)],
                "resumeInitializeAudio")

\* a user gesture on a disposed engine: initAudio finds audioState null
GestureAfterDispose ==
  /\ disposed
  /\ SoundDone(SoundRec, "initAudioNoop")

NextInit ==
  \/ BeginInitializeAudio
  \/ ResumeInitializeAudio
  \/ ~initTask.suspended /\ InitializeAudio
  \/ GestureAfterDispose
  \/ StartNote
  \/ StartNoteAfterDispose
  \/ ResumeStartNote
  \/ StopNote
  \/ ToggleEffect
  \/ ArpTick
  \/ CleanupTimerFires
  \/ DisposeSound

SpecInit == InitSound /\ [][NextInit]_vars

\* ------------------------------------------------------------------------
\* The three first-interaction listeners (click, keydown, touchstart), each
\* registered with once: true. initTask counts what the invocations of
\* initAudio create: AudioContexts, node graphs (master gain, analyser and
\* effects bus) and calls of resolveInit.
\* ------------------------------------------------------------------------

\* an event of a type that still has its listener: the browser removes that
\* listener and runs initAudio. The new context is running (whole
\* _initializeAudio runs, then initAudio removes all three listeners) or
\* suspended (the invocation waits at `await audioContext.resume()`).
FirstInteraction ==
  \E e \in initTask.listeners, suspended \in BOOLEAN, ok \in BOOLEAN :
    /\ ~disposed
    /\ NoRunnableContinuation
    /\ IF isInitialized
       THEN InitDone(SoundRec, [initTask EXCEPT !.listeners = {}],
                     "initAudioNoop")
       ELSE IF suspended
       THEN InitDone([SoundRec EXCEPT !.acState = "suspended"],
                     [initTask EXCEPT !.listeners = @ \ {e},
                                      !.contexts = @ + 1,
                                      !.waiting = @ + 1],
                     "beginInitializeAudio")
       ELSE InitDone(continueInitializeAudio(SoundRec, ok),
                     [initTask EXCEPT !.listeners = {},
                                      !.contexts = @ + 1,
                                      !.graphs = IF ok THEN @ + 1 ELSE @,
                                      !.resolveCalls = @ + 1],
                     "initializeAudio")

\* audioContext.resume() of a waiting invocation settles: the rest of
\* _initializeAudio runs and initAudio removes the listeners
ResumeInteraction ==
  \E ok \in BOOLEAN :
    /\ initTask.waiting > 0
    /\ InitDone(continueInitializeAudio(SoundRec, ok),
                [initTask EXCEPT !.listeners = {},
                                 !.waiting = @ - 1,
                                 !.graphs = IF ok THEN @ + 1 ELSE @,
                                 !.resolveCalls = @ + 1],
                "resumeInitializeAudio")

NextGestures ==
  \/ FirstInteraction
  \/ ResumeInteraction
  \/ StartNote
  \/ ResumeStartNote
  \/ StopNote
  \/ CleanupTimerFires
  \/ OscillatorEnds

SpecGestures == InitSound /\ [][NextGestures]_vars

\* ------------------------------------------------------------------------
\* The page: mapSoundToVisuals. Parameters and levels are in thousandths,
\* the mapped values in millionths.
\* ------------------------------------------------------------------------
Micro == 1000000

\* clamp(value, min, max)
clamp(value, min, max) ==
  LET m == IF max < value THEN max ELSE value
  IN IF min > m THEN min ELSE m

highFeedbackThreshold == 650
highWetThreshold == 750
defaultNoteFrequency == 440000

\* mapSoundToVisuals with the second and the third rule exchanged
mapSoundToVisuals_arpFirst(soundParams, audioLevels, ui) ==
  LET effects == soundParams.effects
      envelope == soundParams.envelope
      filter == soundParams.filter
      arpeggiator == effects.arpeggiator
      delayActive == effects.delay.active
      reverbActive == effects.reverb.active
      highFeedback == effects.delay.feedback > highFeedbackThreshold
      highWet == effects.reverb.wet > highWetThreshold
  IN [morphFactor |->
        clamp(100000 + 40 * filter.Q + 150 * envelope.attack
                + 200 * audioLevels.mid, 0, Micro),
      glitchIntensity |->
        IF ui.glitchEnabled
        THEN clamp(50000 + 600 * audioLevels.high + 30 * filter.Q, 0, Micro)
        ELSE 0,
      rotationSpeed |->
        clamp(100000 + 500 * audioLevels.mid + 300 * audioLevels.high
                + (IF arpeggiator.active THEN arpeggiator.rate * 40000 ELSE 0), 0, 2 * Micro),
      dimension |->
        clamp(3 * Micro + 800 * audioLevels.bass
                + (envelope.release * 500) \div 3, 3 * Micro, 4 * Micro),
      gridDensity |->
        clamp(8 * Micro + 8000 * audioLevels.bass - 2000 * audioLevels.mid,
              5 * Micro, 20 * Micro),
      projectionMethod |->
        IF delayActive /\ highFeedback THEN "stereographic"
        ELSE IF arpeggiator.active THEN "stereographic"
        ELSE IF reverbActive /\ highWet THEN "perspective"
        ELSE "orthographic",
      xyPadActive |-> IF ui.xyPadActive THEN Micro ELSE 0,
      currentNoteFrequency |->
        IF audioLevels.frequency = 0 THEN defaultNoteFrequency
        ELSE audioLevels.frequency]

\* mapSoundToVisuals(soundParams, audioLevels), which also reads uiState
mapSoundToVisuals(soundParams, audioLevels, ui) ==
  LET effects == soundParams.effects
      envelope == soundParams.envelope
      filter == soundParams.filter
      arpeggiator == effects.arpeggiator
      delayActive == effects.delay.active
      reverbActive == effects.reverb.active
      highFeedback == effects.delay.feedback > highFeedbackThreshold
      highWet == effects.reverb.wet > highWetThreshold
  IN [morphFactor |->
        clamp(100000 + 40 * filter.Q + 150 * envelope.attack
                + 200 * audioLevels.mid, 0, Micro),
      glitchIntensity |->
        IF ui.glitchEnabled
        THEN clamp(50000 + 600 * audioLevels.high + 30 * filter.Q, 0, Micro)
        ELSE 0,
      rotationSpeed |->
        clamp(100000 + 500 * audioLevels.mid + 300 * audioLevels.high
                + (IF arpeggiator.active THEN arpeggiator.rate * 40000 ELSE 0), 0, 2 * Micro),
      dimension |->
        clamp(3 * Micro + 800 * audioLevels.bass
                + (envelope.release * 500) \div 3, 3 * Micro, 4 * Micro),
      gridDensity |->
        clamp(8 * Micro + 8000 * audioLevels.bass - 2000 * audioLevels.mid,
              5 * Micro, 20 * Micro),
      projectionMethod |->
        IF delayActive /\ highFeedback THEN "stereographic"
        ELSE IF reverbActive /\ highWet THEN "perspective"
        ELSE IF arpeggiator.active THEN "stereographic"
        ELSE "orthographic",
      xyPadActive |-> IF ui.xyPadActive THEN Micro ELSE 0,
      currentNoteFrequency |->
        IF audioLevels.frequency = 0 THEN defaultNoteFrequency
        ELSE audioLevels.frequency]

\* the sound parameters and analysis levels the model passes to the mapper
\* (an effect that is off is passed with its level above the threshold)
SoundParamInputs ==
  {p \in [effects : [delay : [active : BOOLEAN, feedback : {650, 660}],
                     reverb : [active : BOOLEAN, wet : {750, 760}],
                     arpeggiator : [active : BOOLEAN, rate : {8}]],
          envelope : [attack : {50}, release : {500}],
          filter : [Q : {1000}]] :
     /\ p.effects.delay.active \/ p.effects.delay.feedback = 660
     /\ p.effects.reverb.active \/ p.effects.reverb.wet = 760}

AudioLevelInputs ==
  {[bass |-> 0, mid |-> 0, high |-> 0, frequency |-> 0],
   [bass |-> 1000, mid |-> 500, high |-> 250, frequency |-> 261630]}

PageDone(ui, log) ==
  /\ uiState' = ui
  /\ mapperLog' = log
  /\ UNCHANGED <<coreVars, soundVars, projections, geometries, registryCall,
                 shaderLog, initTask>>

\* the glitch toggle of the page is switched
ToggleGlitch ==
  PageDone([uiState EXCEPT !.glitchEnabled = ~@], mapperLog)

\* the XY pad is pressed or released
PressXYPad ==
  PageDone([uiState EXCEPT !.xyPadActive = ~@], mapperLog)

\* mainLoop calls the mapper with the current parameters and levels
MapSoundToVisuals ==
  \E soundParams \in SoundParamInputs, audioLevels \in AudioLevelInputs :
    PageDone(uiState,
             [prev |-> mapperLog.last,
              last |-> [called |-> TRUE, soundParams |-> soundParams,
                        audioLevels |-> audioLevels,
                        glitchEnabled |-> uiState.glitchEnabled,
                        out |-> mapSoundToVisuals(soundParams, audioLevels,
                                                  uiState)]])

NextMapper ==
  \/ ToggleGlitch
  \/ PressXYPad
  \/ MapSoundToVisuals

SpecMapper == InitShader /\ [][NextMapper]_vars

\* ------------------------------------------------------------------------
\* The page: mainLoop feeds the mapper's output to the engine
\* ------------------------------------------------------------------------

\* the keys of the object mapSoundToVisuals returns, in insertion order
VisualKeys ==
  <<"morphFactor", "glitchIntensity", "rotationSpeed", "dimension",
    "gridDensity", "projectionMethod", "xyPadActive", "currentNoteFrequency">>

\* updateParameters(visualParams): the loop over the keys from the i-th on
RECURSIVE updateVisualParams(_, _, _)
updateVisualParams(s, visualParams, i) ==
  IF i > Len(VisualKeys) THEN s
  ELSE updateVisualParams(
         updateParameters(s, VisualKeys[i], visualParams[VisualKeys[i]]),
         visualParams, i + 1)

\* the sound parameters the model lets the main loop read
FeedParamInputs ==
  {p \in SoundParamInputs :
     ~p.effects.reverb.active /\ ~p.effects.arpeggiator.active}

\* mainLoop() once the modules are ready: the sound parameters and the
\* analysis levels are whatever the sound module holds at that moment
MainLoop ==
  /\ isRendering
  /\ updates < MaxUpdates
  /\ \E soundParams \in FeedParamInputs, audioLevels \in AudioLevelInputs :
       \E visualParams \in {mapSoundToVisuals(soundParams, audioLevels,
                                              uiState)} :
         \E s \in {updateVisualParams(CoreRec, visualParams, 1)} :
           /\ AssignCore([s EXCEPT !.lastOp = "mainLoop",
                                   !.updates = @ + 1,
                                   !.frame = NoFrameInfo])
           /\ mapperLog' =
                [mapperLog EXCEPT
                   !.last = [called |-> TRUE, soundParams |-> soundParams,
                             audioLevels |-> audioLevels,
                             glitchEnabled |-> uiState.glitchEnabled,
                             out |-> visualParams]]
           /\ UNCHANGED <<soundVars, projections, geometries, registryCall,
                          shaderLog, initTask, uiState>>

NextFeed ==
  \/ Start
  \/ MainLoop
  \/ Render
  \/ ToggleGlitch

SpecFeed == InitCore /\ [][NextFeed]_vars

\* ------------------------------------------------------------------------
\* The page: the keys of the on-screen keyboard
\* ------------------------------------------------------------------------
KeyInputs == {"C4", "A4"}

KeyDone(a, op, ui) ==
  /\ ~a.overflow
  /\ AssignSound([a EXCEPT !.soundOp = op, !.cleanupTimers = LiveTimers(a)])
  /\ uiState' = ui
  /\ UNCHANGED <<coreVars, projections, geometries, registryCall, shaderLog,
                 initTask, mapperLog>>

\* handleKeyDown of a key that is not pressed: startNote(note) is called
\* and suspends at `await this.initPromise`
HandleKeyDown ==
  \E note \in KeyInputs :
    /\ note \notin uiState.pressedKeys
    /\ ~disposed
    /\ Len(pendingStarts) < MaxPending
    /\ KeyDone([SoundRec EXCEPT !.pendingStarts = Append(@, note)],
               "startNoteCall",
               [uiState EXCEPT !.activeNoteSource = "keyboard",
                               !.pressedKeys = @ \cup {note}])

\* handleKeyUp of a pressed key
HandleKeyUp ==
  \E note \in uiState.pressedKeys :
    /\ NoRunnableContinuation
    /\ IF uiState.activeNoteSource = "keyboard"
       THEN KeyDone(stopNote(SoundRec, TRUE), "stopNote",
                    [uiState EXCEPT !.activeNoteSource = NullName,
                                    !.pressedKeys = @ \ {note}])
       ELSE KeyDone(SoundRec, "keyUp",
                    [uiState EXCEPT !.pressedKeys = @ \ {note}])

NextKeys ==
  \/ HandleKeyDown
  \/ HandleKeyUp
  \/ ResumeStartNote
  \/ InitializeAudio
  \/ ToggleEffect
  \/ ArpTick
  \/ CleanupTimerFires
  \/ OscillatorEnds

SpecKeys == InitSound /\ [][NextKeys]_vars

\* ------------------------------------------------------------------------
\* HypercubeCore: properties
\* ------------------------------------------------------------------------
\* the last callback was a frame that passed the isRendering and context
\* checks of _render
FrameRan == lastOp = "frame" /\ frame.ran

\* the last callback was a frame that reached the end of _render (uniforms
\* set, cleared, drawn, next frame requested)
FrameCompleted == lastOp = "frame" /\ frame.completed

\* the uniforms whose location resolves in the active program
Resolved == {u \in KnownUniforms : UniformLoc(CoreRec, u)}

\* C4: immediately after an effective start() (first start or restart after
\* stop()), the dirty set contains every uniform the engine uploads.
C4_StartMarksAllDirty ==
  lastOp = "start" => KnownUniforms \subseteq dirtyUniforms

C6_TickClearsFlag ==
  (FrameRan /\ frame.flagBefore) => (frame.relinks = 1 /\ ~needsShaderUpdate)

\* C6 as amended: an updateParameters call that changes geometryType or
\* projectionMethod sets the rebuild flag; the next frame tick that runs
\* makes exactly one relink attempt, however many changes were made, and
\* clears the flag iff the relink succeeds (on failure the flag stays set and
\* the loop is halted); a frame that finds the flag clear makes no relink.
C6_TickRelinksOnce ==
  /\ [](FrameRan =>
          /\ frame.relinks = (IF frame.flagBefore THEN 1 ELSE 0)
          /\ frame.flagBefore => (needsShaderUpdate = ~frame.rebuildOk)
          /\ (frame.flagBefore /\ ~frame.rebuildOk) => ~isRendering
          /\ ~frame.flagBefore => ~needsShaderUpdate)
  /\ [][(geometryType' # geometryType \/ projectionMethod' # projectionMethod)
          => needsShaderUpdate']_vars

C6_Witness ==
  /\ FrameRan
  /\ frame.flagBefore
  /\ frame.rebuildOk
  /\ ~needsShaderUpdate
  /\ geometryType = "hypersphere"
  /\ projectionMethod = "stereographic"

\* C7: at the end of a frame in which a rebuild succeeded, every uniform
\* that resolves in the active program holds the current state value.
C7_ConsistentAfterRebuild ==
  (FrameCompleted /\ frame.rebuildOk /\ frame.loss = "none") =>
    \A u \in Resolved : gpuUniform[u] = state[StateKeyOf(u)]

\* C8: a failed rebuild halts the loop without clearing or drawing, and
\* onError is invoked once per failure episode (the constructor's attempt and
\* the retry on the first frame after start() are one episode).
C8_OneErrorPerEpisode ==
  /\ (FrameRan /\ frame.flagBefore /\ ~frame.rebuildOk) =>
       (~isRendering /\ rafPending = {} /\ ~frame.completed)
  /\ errEpisode <= 1

\* C9: when the GL context is lost while the loop runs, the loop stops, the
\* error callback is invoked once and no GL call is attempted after the loss.
C9_NoGLAfterLoss ==
  /\ ~glAfterLoss
  /\ ctxErrors <= 1

\* C10: after stop() has returned no render callback is pending or gets
\* scheduled, and at most one render callback is pending at any time.
C10_StopCancelsLoop ==
  /\ ~isRendering => rafPending = {}
  /\ Cardinality(rafPending) <= 1

\* ------------------------------------------------------------------------
\* SoundModule: properties
\* ------------------------------------------------------------------------
\* the voices that are alive: started, connected to the master gain of a
\* running context, and not past their scheduled stop
LiveVoices ==
  {i \in 1..Len(voices) : acState = "running" /\ voices[i].stop # "passed"}

\* C1: at most one voice is alive and connected to the master bus at any
\* time, so a sustained voice and an arpeggio-step voice are never alive
\* together.
C1_AtMostOneLiveVoice == Cardinality(LiveVoices) <= 1

\* C2: the sequencer never has more than one live voice: no two
\* arpeggio-step voices are alive at the same time, whatever the timing of
\* the cleanup timer and the next step tick.
C2_OneSequencerVoice ==
  Cardinality({i \in LiveVoices : voices[i].kind = "arp"}) <= 1

\* C3: arp.intervalId is non-null iff a step timer is armed, the armed timer
\* is the one the handle names, and no second timer is ever armed.
C3_OneStepTimer ==
  armedIntervals =
    (IF arp.intervalId = NoInterval THEN {} ELSE {arp.intervalId})

\* a rate change found the sequence running with a held note, cancelled
\* its timer and armed the replacement
C3_Witness ==
  /\ soundOp = "setRate"
  /\ arp.intervalId # NoInterval
  /\ activeNote # NoNote
  /\ armedIntervals # {}

\* C11: whenever a voice is live on an initialized engine, its gain node has
\* an edge to the delay bus iff effects.delay.active and an edge to the
\* reverb bus iff effects.reverb.active, and never a duplicate edge.
C11_RoutingFollowsFlags ==
  \A i \in LiveVoices :
    isInitialized =>
      /\ (voices[i].toDelay = 1) <=> parameters.effects.delay.active
      /\ (voices[i].toReverb = 1) <=> parameters.effects.reverb.active
      /\ voices[i].toDelay <= 1
      /\ voices[i].toReverb <= 1

C13_ToggleSwitchesMode ==
  [][(arp'.active # arp.active /\ activeNote # NoNote /\ ~disposed') =>
       /\ arp'.active =>
            /\ arp'.baseNote = activeNote
            /\ arp'.currentStep = 1
            /\ arp'.intervalId # NoInterval
            /\ armedIntervals' = {arp'.intervalId}
            /\ currentOscillator' \in LiveVoices'
            /\ voices'[currentOscillator'].kind = "arp"
       /\ ~arp'.active =>
            /\ arp'.intervalId = NoInterval
            /\ armedIntervals' = {}
            /\ currentOscillator' \in LiveVoices'
            /\ voices'[currentOscillator'].kind = "sustained"
       /\ (Cardinality(LiveVoices') = 1 \/ arp'.intervalId # NoInterval)
    ]_vars

\* a suspended startNote(n) resumes with the engine ready and n a known note
StartNoteRuns ==
  /\ soundOp' = "startNote"
  /\ Len(pendingStarts') < Len(pendingStarts)
  /\ ~disposed
  /\ initPromise = "true"
  /\ acState = "running"
  /\ KnownNote(Head(pendingStarts))

\* C14: when startNote(n) runs with the arpeggiator active, the base note
\* becomes n and a step timer is running afterwards (also when an earlier
\* sequence stopped itself or the previous note was never released); a
\* sequence that is already running is not restarted.
C14_StartNoteKeepsSequencing ==
  [][(StartNoteRuns /\ arp.active) =>
       /\ arp'.baseNote = Head(pendingStarts)
       /\ arp'.intervalId # NoInterval
       /\ armedIntervals' = {arp'.intervalId}
       /\ arp.intervalId # NoInterval =>
            /\ arp'.intervalId = arp.intervalId
            /\ arp'.currentStep = arp.currentStep
            /\ voices' = voices
    ]_vars

\* C15: stopNote on a playing engine cancels the step timer if sequencing,
\* leaves the current voice with a stop scheduled, clears isPlaying and the
\* held note and creates no voice; while nothing is playing no voice is
\* created except by startNote or toggleEffect.
C15_StopNoteStopsPlayback ==
  [][/\ (soundOp' = "stopNote" /\ isPlaying /\ ~disposed) =>
          /\ ~isPlaying'
          /\ activeNote' = NoNote
          /\ arp'.intervalId = NoInterval
          /\ armedIntervals' = {}
          /\ Len(voices') = Len(voices)
          /\ currentOscillator' = currentOscillator
          /\ currentOscillator # NoOsc =>
               voices'[currentOscillator].stop # "none"
     /\ (~isPlaying /\ Len(voices') > Len(voices)) =>
          soundOp' \in {"startNote", "toggleEffect"}
    ]_vars

\* stopNote has just ended a running sequence: the last step's voice is
\* fading and no timer is armed
C15_Witness ==
  /\ soundOp = "stopNote"
  /\ ~isPlaying
  /\ arp.active
  /\ currentOscillator # NoOsc
  /\ voices[currentOscillator].kind = "arp"
  /\ voices[currentOscillator].stop = "scheduled"
  /\ armedIntervals = {}

\* the groups of the parameter structure, and its keys
ParamGroups ==
  {<<g>> : g \in DOMAIN defaultStructure}
    \cup {<<"effects", e>> : e \in DOMAIN defaultStructure.effects}

LeafGroups == ParamGroups \ {<<"effects">>}

GroupOf(params, type) ==
  IF Len(type) = 1 THEN params[type[1]] ELSE params.effects[type[2]]

\* the value the literal definition of preset p gives to a key, or the
\* default structure's where p omits it
ExpectedParam(p, type, name) ==
  LET lit == getPresetsDefinition[p]
      defined ==
        IF Len(type) = 1
        THEN type[1] \in DOMAIN lit /\ name \in DOMAIN lit[type[1]]
        ELSE /\ "effects" \in DOMAIN lit
             /\ type[2] \in DOMAIN lit.effects
             /\ name \in DOMAIN lit.effects[type[2]]
  IN IF defined THEN GroupOf(lit, type)[name]
     ELSE GroupOf(defaultStructure, type)[name]

NoteState ==
  <<activeNote, isPlaying, arp, currentOscillator, voices, armedIntervals,
    cleanupTimers, parameters, isInitialized, acState>>

PatternOffset(pattern, n) == pattern[(n % Len(pattern)) + 1]

\* C21: a sequence starts with the step index reset to 0 and its first step
\* played at once; every played step uses the offset pattern[n mod length]
\* for the step index n it finds, plays baseFrequency * semitoneRatio^offset
\* and advances the index by one; nothing else moves the index.
C21_StepFollowsPattern ==
  [][/\ (soundOp' = "arpStep" /\ arp'.currentStep # arp.currentStep) =>
          /\ arp'.currentStep = arp.currentStep + 1
          /\ currentNoteFrequency' =
               StepFrequency(noteFrequencies[arp.baseNote],
                             PatternOffset(arp.pattern, arp.currentStep))
     /\ (/\ soundOp' \in {"startNote", "toggleEffect"}
         /\ arp.intervalId = NoInterval
         /\ arp'.intervalId # NoInterval) =>
          /\ arp'.currentStep = 1
          /\ currentNoteFrequency' =
               StepFrequency(noteFrequencies[arp'.baseNote],
                             PatternOffset(arp'.pattern, 0))
     /\ arp'.currentStep # arp.currentStep =>
          \/ soundOp' = "arpStep"
          \/ /\ soundOp' \in {"startNote", "toggleEffect"}
             /\ arp.intervalId = NoInterval
             /\ arp'.intervalId # NoInterval
    ]_vars

\* with pattern [0,4,7] and base A4 the fourth step (index 3) has just
\* played 440.00 Hz again
C21_Witness ==
  /\ soundOp = "arpStep"
  /\ arp.pattern = <<0, 4, 7>>
  /\ arp.baseNote = "A4"
  /\ arp.currentStep = 4
  /\ currentNoteFrequency = 44000

\* ------------------------------------------------------------------------
\* ShaderManager: properties
\* ------------------------------------------------------------------------
\* the program objects created for a name and not deleted
LivePrograms(log, pn) ==
  {i \in DOMAIN log.objects :
     log.objects[i].name = pn /\ ~log.objects[i].deleted}

\* C22: a createDynamicProgram call that succeeds under a name that already
\* has a program deletes the old program object, stores exactly one (new)
\* program under the name and leaves both location caches of the name empty;
\* and every location a location call returns was resolved against the
\* program object that is stored under the active name at that moment.
C22_RebuildReplacesProgram ==
  [][/\ (/\ lastOp' = "createDynamicProgram"
         /\ shaderLog'.call.returned = ProgramHandle
         /\ shaderLog'.call.name \in programs) =>
          LET pn == shaderLog'.call.name
          IN /\ pn \in programs'
             /\ pn \in DOMAIN shaderLog.object
             /\ shaderLog'.object[pn] # shaderLog.object[pn]
             /\ shaderLog'.objects[shaderLog.object[pn]].deleted
             /\ LivePrograms(shaderLog', pn) = {shaderLog'.object[pn]}
             /\ uniformLocations'[pn] = EmptyMap
             /\ attributeLocations'[pn] = EmptyMap
     /\ (/\ lastOp' \in {"getUniformLocation", "getAttributeLocation"}
         /\ shaderLog'.call.returned = LocationFound) =>
          LET key == <<shaderLog'.call.op,
                       shaderLog'.object[currentProgramName'],
                       shaderLog'.call.name>>
          IN /\ key \in DOMAIN shaderLog'.lookups
             /\ shaderLog'.lookups[key]
    ]_vars

\* the program was rebuilt under its name, the first object is deleted, and
\* a uniform that had been resolved against the first object has just been
\* resolved again against the second
C22_Witness ==
  /\ Len(shaderLog.objects) = 2
  /\ shaderLog.objects[1].deleted
  /\ shaderProgramName \in DOMAIN shaderLog.object
  /\ shaderLog.object[shaderProgramName] = 2
  /\ lastOp = "getUniformLocation"
  /\ shaderLog.call.returned = LocationFound
  /\ <<"uniform", 1, shaderLog.call.name>> \in DOMAIN shaderLog.lookups
  /\ <<"uniform", 2, shaderLog.call.name>> \in DOMAIN shaderLog.lookups

\* the last call was a location call
LocationCall == lastOp \in {"getUniformLocation", "getAttributeLocation"}

\* C23: a location call does not throw and returns a location or null; it
\* returns null when no program is active and when the active program does
\* not have the name; no (program object, name) pair is looked up on the GPU
\* twice, and a returned location is the result of the lookup made against
\* the current program object.
C23_LocationLookups ==
  /\ ~shaderLog.repeated
  /\ LocationCall =>
       /\ ~shaderLog.call.threw
       /\ shaderLog.call.returned \in {LocationNull, LocationFound}
       /\ currentProgramName = NoProgram =>
            shaderLog.call.returned = LocationNull
       /\ shaderLog.call.name \notin glResolvable =>
            shaderLog.call.returned = LocationNull
       /\ shaderLog.call.returned = LocationFound =>
            <<shaderLog.call.op, shaderLog.object[currentProgramName],
              shaderLog.call.name>> \in DOMAIN shaderLog.lookups

\* C24: for every program name, projection name and compile or link
\* outcome, createDynamicProgram returns a program or null and does not
\* throw.
C24_ComposeNeverThrows ==
  lastOp = "createDynamicProgram" =>
    /\ ~shaderLog.call.threw
    /\ shaderLog.call.returned \in {ProgramHandle, LocationNull}

\* ------------------------------------------------------------------------
\* ProjectionManager and GeometryManager: properties
\* ------------------------------------------------------------------------
\* the provider a lookup is to return: the one registered under the name
\* with its letter case ignored, else the one registered under the default
ExpectedProvider(reg, name, default) ==
  IF ~Falsy(name) /\ ToLowerCase(name) \in DOMAIN reg
  THEN reg[ToLowerCase(name)]
  ELSE reg[default]

\* C27: a lookup returns the provider registered under the name, letter
\* case ignored, and the provider registered under the default name for an
\* unknown, empty or null name; registering an object that is not an
\* instance of the base class leaves the registry unchanged.
C27_RegistryLookup ==
  [][/\ registryCall'.op = "getProjection" =>
          registryCall'.returned =
            ExpectedProvider(projections, registryCall'.name,
                             defaultProjection)
     /\ registryCall'.op = "getGeometry" =>
          registryCall'.returned =
            ExpectedProvider(geometries, registryCall'.name, defaultGeometry)
     /\ (/\ registryCall'.op = "registerProjection"
         /\ registryCall'.instance \notin ProjectionInstances) =>
          projections' = projections
     /\ (/\ registryCall'.op = "registerGeometry"
         /\ registryCall'.instance \notin GeometryInstances) =>
          geometries' = geometries
    ]_vars

\* ------------------------------------------------------------------------
\* Disposal: properties
\* ------------------------------------------------------------------------
\* the fields of the three objects (without the observation variables)
CoreFields ==
  <<isRendering, animationFrameId, needsShaderUpdate, dirtyUniforms, state,
    geometryType, projectionMethod, aPositionLoc, onRenderCallback, gl>>
ShaderFields ==
  <<shaderSources, compiledShaders, programs, uniformLocations,
    attributeLocations, currentProgramName>>
SoundFields ==
  <<disposed, isInitialized, isPlaying, currentOscillator, activeNote, arp,
    parameters, initPromise, voices, acState, armedIntervals,
    currentNoteFrequency>>

ShaderManagerEmpty ==
  /\ shaderSources = {} /\ compiledShaders = {} /\ programs = {}
  /\ DOMAIN uniformLocations = {} /\ DOMAIN attributeLocations = {}
  /\ currentProgramName = NoProgram

C26_DisposeSafeWhenPartial ==
  [][/\ initTask'.outcome # "rejected"
     /\ disposed => voices' = voices
    ]_vars

\* ------------------------------------------------------------------------
\* mapSoundToVisuals: properties
\* ------------------------------------------------------------------------
DelayRule(p) ==
  p.effects.delay.active /\ p.effects.delay.feedback > highFeedbackThreshold
ReverbRule(p) ==
  p.effects.reverb.active /\ p.effects.reverb.wet > highWetThreshold
ArpRule(p) == p.effects.arpeggiator.active

\* C28: the projection the mapper selects is stereographic when delay is
\* active with feedback above 0.65; otherwise perspective when reverb is
\* active with wet above 0.75; otherwise stereographic when the arpeggiator
\* is active; otherwise orthographic.
C28_ProjectionPriority ==
  mapperLog.last.called =>
    LET p == mapperLog.last.soundParams
        m == mapperLog.last.out.projectionMethod
    IN /\ DelayRule(p) => m = "stereographic"
       /\ (~DelayRule(p) /\ ReverbRule(p)) => m = "perspective"
       /\ (~DelayRule(p) /\ ~ReverbRule(p) /\ ArpRule(p)) =>
            m = "stereographic"
       /\ (~DelayRule(p) /\ ~ReverbRule(p) /\ ~ArpRule(p)) =>
            m = "orthographic"

\* reverb is active with a high wet level while the arpeggiator is active
\* and the delay feedback sits on the threshold: the second rule decided
C28_Witness ==
  /\ mapperLog.last.called
  /\ mapperLog.last.soundParams.effects.delay.active
  /\ mapperLog.last.soundParams.effects.delay.feedback = highFeedbackThreshold
  /\ ReverbRule(mapperLog.last.soundParams)
  /\ ArpRule(mapperLog.last.soundParams)
  /\ mapperLog.last.out.projectionMethod = "perspective"

\* C29: two calls of the mapper with the same sound parameters, levels and
\* toggle flags return the same value in every field, whatever else the
\* page's state is.
C29_MapperDeterministic ==
  (/\ mapperLog.prev.called
   /\ mapperLog.last.called
   /\ mapperLog.prev.soundParams = mapperLog.last.soundParams
   /\ mapperLog.prev.audioLevels = mapperLog.last.audioLevels
   /\ mapperLog.prev.glitchEnabled = mapperLog.last.glitchEnabled) =>
    mapperLog.prev.out = mapperLog.last.out

\* ------------------------------------------------------------------------
\* HypercubeCore.updateParameters: properties
\* ------------------------------------------------------------------------

\* C30: on every call of updateParameters, each state field that is uploaded
\* as a uniform and whose value the call changed has its uniform name in the
\* dirty set afterwards; a call that changes no field adds nothing to the
\* dirty set, and a key that is not a field of the state changes nothing.
C30_ChangeMarksDirty ==
  [][lastOp' = "updateParameters" =>
       /\ \A u \in KnownUniforms :
            state'[StateKeyOf(u)] # state[StateKeyOf(u)] =>
              u \in dirtyUniforms'
       /\ state' = state => dirtyUniforms' = dirtyUniforms
       /\ DOMAIN state' = DOMAIN state]_vars

\* ------------------------------------------------------------------------
\* mainLoop: properties
\* ------------------------------------------------------------------------

\* the engine, with visual state st and projection pm, holds the value v
\* under the key k of the mapper's output
Holds(st, pm, k, v) ==
  IF k = "projectionMethod" THEN pm = v
  ELSE k \in DOMAIN st /\ st[k] = v

\* C31: after every iteration of the main loop the engine holds, for each of
\* morphFactor, glitchIntensity, rotationSpeed, dimension, gridDensity,
\* projectionMethod and currentNoteFrequency, the value the mapper emitted
\* in that iteration.
C31_EngineHoldsMapperOutput ==
  [][lastOp' = "mainLoop" =>
       \A k \in {"morphFactor", "glitchIntensity", "rotationSpeed",
                 "dimension", "gridDensity", "projectionMethod",
                 "currentNoteFrequency"} :
         Holds(state', projectionMethod', k, mapperLog'.last.out[k])]_vars

\* ------------------------------------------------------------------------
\* HypercubeCore._setUniforms: properties
\* ------------------------------------------------------------------------

\* C32: a dirty uniform whose location is unavailable stays in the dirty set
\* across every frame (with or without a rebuild) that does not upload it:
\* if after the frame the GPU still holds another value than the state, the
\* uniform is still dirty.
C32_UnavailableStaysDirty ==
  [][lastOp' = "frame" =>
       \A u \in KnownUniforms :
         (/\ u \in dirtyUniforms
          /\ ~UniformLoc(CoreRec, u)
          /\ gpuUniform'[u] # state'[StateKeyOf(u)]) =>
           u \in dirtyUniforms']_vars

\* ------------------------------------------------------------------------
\* SoundModule: the life of a voice
\* ------------------------------------------------------------------------

\* a step of the runtime alone: a cleanup timeout or an oscillator's end
RuntimeStep == soundOp' \in {"cleanupTimer", "oscEnded"}

\* the connected chains that are not the voice of a held note
LingeringVoices ==
  {i \in 1..Len(voices) : ~(i = currentOscillator /\ isPlaying)}

\* C33: every voice is destroyed after its release or its replacement: once
\* the page makes no further call and no step timer runs, eventually no
\* chain is connected except the voice of a note that is still held.
C33_VoicesEventuallyDestroyed ==
  <>[][RuntimeStep]_vars => <>[](LingeringVoices = {})

\* ------------------------------------------------------------------------
\* SoundModule._arpStep: the liveness check of a step
\* ------------------------------------------------------------------------

\* the condition _arpStep tests before it plays
InvalidArpState(engineDisposed, sequencer) ==
  \/ engineDisposed
  \/ ~sequencer.active
  \/ Len(sequencer.pattern) = 0
  \/ sequencer.baseNote = NoNote
  \/ ~KnownNote(sequencer.baseNote)

ArpVoiceCount(vs) == Cardinality({i \in 1..Len(vs) : vs[i].kind = "arp"})

C35_StopNoteWins ==
  (uiState.pressedKeys = {} /\ pendingStarts = <<>>) =>
    /\ ~isPlaying
    /\ armedIntervals = {}
    /\ \A i \in 1..Len(voices) : voices[i].stop # "none"

\* ------------------------------------------------------------------------
\* SoundModule: the first interaction
\* ------------------------------------------------------------------------

\* C36: whatever the order of the click, keydown and touchstart events, at
\* most one AudioContext and one node graph (master gain, analyser, effects
\* bus) are created and resolveInit is called at most once.
C36_InitializesOnce ==
  /\ initTask.contexts <= 1
  /\ initTask.graphs <= 1
  /\ initTask.resolveCalls <= 1

\* ------------------------------------------------------------------------
\* SoundModule: the sequencer and the held note
\* ------------------------------------------------------------------------

C38_SequencerMirrorsParameters ==
  /\ arp.active = parameters.effects.arpeggiator.active
  /\ arp.rate = parameters.effects.arpeggiator.rate
  /\ arp.pattern = parameters.effects.arpeggiator.pattern

\* ------------------------------------------------------------------------
\* HypercubeCore: resolution
\* ------------------------------------------------------------------------

\* C39: after every completed render frame state.resolution equals the
\* canvas drawing-buffer size and the resolution uniform, where the program
\* has one, holds that value, also when the buffer matched the display size
\* from the start.
C39_ResolutionFollowsCanvas ==
  FrameCompleted =>
    /\ state["resolution"] = canvasSize
    /\ UniformLoc(CoreRec, "u_resolution") =>
         gpuUniform["u_resolution"] = canvasSize

\* the same for frames in which a mismatch has been detected at least once
ResolutionAfterMismatch ==
  (FrameCompleted /\ state["resolution"] # 0) =>
    /\ state["resolution"] = canvasSize
    /\ UniformLoc(CoreRec, "u_resolution") =>
         gpuUniform["u_resolution"] = canvasSize

\* ------------------------------------------------------------------------
\* ShaderManager: the tracker and the caches
\* ------------------------------------------------------------------------

\* the tracker names nothing or a cached program, and every cached program
\* has both location caches
TrackerAndCachesConsistent(active, cached, uniforms, attributes) ==
  /\ active = NoProgram \/ active \in cached
  /\ \A pn \in cached : pn \in DOMAIN uniforms /\ pn \in DOMAIN attributes

\* C40: after every step the active-program name is null or names a cached
\* program and every cached program has its uniform- and attribute-location
\* cache; useProgram of a name that is not cached leaves the active name
\* unchanged.
C40_TrackerNamesCachedProgram ==
  [][/\ TrackerAndCachesConsistent(currentProgramName', programs',
                                   uniformLocations', attributeLocations')
     /\ (lastOp' = "useProgram" /\ shaderLog'.call.name \notin programs
           /\ shaderLog'.call.name # NoProgram) =>
          currentProgramName' = currentProgramName]_vars

\* the rebuild of the active program failed at the link: the old program
\* object is deleted, nothing is cached and the tracker is cleared
C40_Witness ==
  /\ lastOp = "createDynamicProgram"
  /\ shaderLog.call.returned = LocationNull
  /\ compiledShaders # {}
  /\ programs = {}
  /\ currentProgramName = NoProgram
  /\ \E i \in DOMAIN shaderLog.objects : shaderLog.objects[i].deleted

====
